---- MODULE Spec2Model ----
(***************************************************************************)
(* DIGIPIN hierarchical grid codec (lib/core/encoder, lib/core/decoder),  *)
(* the hierarchy navigation built on it (lib/utils/neighbors), the         *)
(* validator (lib/core/validator) and the grid enumeration                 *)
(* (lib/utils/grid); the TypeScript codec (src/core/codec), the batch      *)
(* processing built on it (processBatch, specification SpecBatch) and the  *)
(* fluent API of the exported instance (lib/index, specification           *)
(* SpecChain).                                                             *)
(*                                                                         *)
(* Numbers.  Latitudes and longitudes are whole numbers of units of        *)
(* 2^-19 degree.  BOUNDS is 36 degrees wide, so the cell of level 10 is    *)
(* 36/4^10 degree = 18 units wide: every division line and every cell      *)
(* centre of every level 1..10 is a whole number of units.  These values   *)
(* are dyadic rationals that IEEE doubles hold exactly, so the sums,       *)
(* differences, quarterings and halvings the code performs on them are     *)
(* exact in JavaScript and exact here, and Math.floor(a / b) is a \div b.  *)
(*                                                                         *)
(* JavaScript values.  A value is a record [type, nan, v]: type is what    *)
(* typeof answers, nan marks the number NaN, v is the payload (an integer  *)
(* for a number, a sequence of one-character strings for a string).        *)
(*                                                                         *)
(* Lengths.  accuracy.approximateMeters is a whole number of units of      *)
(* 111000 * 2^-19 metre, the length of one unit of latitude, so that       *)
(* degrees * 111000 is the number of units of the degrees.                 *)
(***************************************************************************)
EXTENDS Integers, Sequences, FiniteSets, TLC

VARIABLES
    lat,        \* latitude argument of the last encode call
    lon,        \* longitude argument of the last encode call
    precision,  \* precision argument of the last encode or generateGrid call
    gridBounds, \* bounds argument of the last generateGrid call
    digiPin,    \* the value the caller holds and passes as the DIGIPIN argument
    origin,     \* the string digiPin was obtained from (before a caller's edit)
    via,        \* how the caller obtained digiPin
    ret,        \* outcome of the last call: [op, threw, value, error]
    batch,      \* the processBatch call in progress: its arguments, locals and promise
    currentDigipin, \* _currentDigipin of the exported DigipinPlus instance
    own,        \* per caller, the code its last successful from() or to() set
    succeeded   \* whether a from() or to() has returned on the instance

\* the variables of a scenario of codec calls, of a batch, of the fluent API
codecVars == <<lat, lon, precision, gridBounds, digiPin, origin, via>>
batchVars == <<batch>>
chainVars == <<currentDigipin, own, succeeded>>

vars == <<lat, lon, precision, gridBounds, digiPin, origin, via, ret,
          batch, currentDigipin, own, succeeded>>

----------------------------------------------------------------------------
(* JavaScript values                                                       *)

Num(n) == [type |-> "number", nan |-> FALSE, v |-> n]
NaN == [type |-> "number", nan |-> TRUE, v |-> 0]
Str(s) == [type |-> "string", nan |-> FALSE, v |-> s]
Null == [type |-> "object", nan |-> FALSE, v |-> 0]
Undefined == [type |-> "undefined", nan |-> FALSE, v |-> 0]

\* a < b and a > b on JavaScript numbers: every comparison with NaN is false
JsLess(a, b) == ~a.nan /\ ~b.nan /\ a.v < b.v
JsGreater(a, b) == ~a.nan /\ ~b.nan /\ a.v > b.v

NoError == [message |-> "", char |-> "", position |-> 0, length |-> 0]
Return(value) == [threw |-> FALSE, value |-> value, error |-> NoError]
Throw(message) ==
    [threw |-> TRUE, value |-> <<>>,
     error |-> [message |-> message, char |-> "", position |-> 0, length |-> 0]]

----------------------------------------------------------------------------
(* lib/core/constants.js                                                   *)

DIGIPIN_GRID ==
    << <<"F", "C", "9", "8">>,
       <<"J", "3", "2", "7">>,
       <<"K", "4", "5", "6">>,
       <<"L", "M", "P", "T">> >>

\* DIGIPIN_GRID.flat(): the 16 symbols in row-major order
DIGIPIN_CHARS == DIGIPIN_GRID[1] \o DIGIPIN_GRID[2] \o DIGIPIN_GRID[3] \o DIGIPIN_GRID[4]

Alphabet == {DIGIPIN_CHARS[k] : k \in 1..Len(DIGIPIN_CHARS)}

\* CHAR_TO_POSITION[char] = { row: r, col: c }, rows and columns counted from 0
CHAR_TO_POSITION ==
    [char \in Alphabet |->
        CHOOSE p \in [row : 0..3, col : 0..3] : DIGIPIN_GRID[p.row + 1][p.col + 1] = char]

\* { minLat: 2.5, maxLat: 38.5, minLon: 63.5, maxLon: 99.5 } in units of 2^-19 degree
BOUNDS ==
    [minLat |-> 5 * 2^18, maxLat |-> 77 * 2^18, minLon |-> 127 * 2^18, maxLon |-> 199 * 2^18]

----------------------------------------------------------------------------
(* Strings                                                                 *)

\* String.prototype.toUpperCase on the characters the callers type
UpperOf(char) ==
    CASE char = "f" -> "F"
      [] char = "c" -> "C"
      [] char = "j" -> "J"
      [] char = "k" -> "K"
      [] char = "l" -> "L"
      [] char = "m" -> "M"
      [] char = "p" -> "P"
      [] char = "t" -> "T"
      [] char = "z" -> "Z"
      [] OTHER -> char

\* String.prototype.toLowerCase on the same characters
LowerOf(char) ==
    CASE char = "F" -> "f"
      [] char = "C" -> "c"
      [] char = "J" -> "j"
      [] char = "K" -> "k"
      [] char = "L" -> "l"
      [] char = "M" -> "m"
      [] char = "P" -> "p"
      [] char = "T" -> "t"
      [] char = "X" -> "x"
      [] char = "Z" -> "z"
      [] OTHER -> char

toUpperCase(s) == [i \in 1..Len(s) |-> UpperOf(s[i])]
toLowerCase(s) == [i \in 1..Len(s) |-> LowerOf(s[i])]

\* s.replace(/-/g, '')
IsNotHyphen(char) == char # "-"
replaceHyphens(s) == SelectSeq(s, IsNotHyphen)

----------------------------------------------------------------------------
(* lib/core/encoder.js : encode                                            *)

MaxPrecision == 10

min3(x) == IF x < 3 THEN x ELSE 3
max0(x) == IF x > 0 THEN x ELSE 0

encodeRow_NotReversed(latV, minLat_, latDiv) ==
    max0(min3((latV - minLat_) \div latDiv))

\* row = 3 - Math.floor((lat - minLat) / latDiv), clamped to 0..3
encodeRow(latV, minLat_, latDiv) ==
    max0(min3(3 - ((latV - minLat_) \div latDiv)))

\* col with the band closed at its east edge
encodeCol_ClosedAtEast(lonV, minLon_, lonDiv) ==
    max0(min3((lonV - minLon_ - 1) \div lonDiv))

\* col = Math.floor((lon - minLon) / lonDiv), clamped to 0..3
encodeCol(lonV, minLon_, lonDiv) ==
    max0(min3((lonV - minLon_) \div lonDiv))

hyphenAfter_AnyPrecision(precision_, level) ==
    level = 3 \/ level = 6

\* precision === 10 && (level === 3 || level === 6)
hyphenAfter(precision_, level) ==
    precision_ = 10 /\ (level = 3 \/ level = 6)

\* One pass of the for loop of encode for a latitude that is a number and a
\* longitude that may be NaN.  With lon = NaN, col is NaN, DIGIPIN_GRID[row][NaN]
\* is undefined, the string "undefined" is appended and minLon, maxLon become NaN
\* (lonIsNaN) for the rest of the loop.
encodeStep(latV, lon_, precision_, level, st) ==
    LET latDiv == (st.maxLat - st.minLat) \div 4
        lonDiv == (st.maxLon - st.minLon) \div 4
        row == encodeRow(latV, st.minLat, latDiv)
        col == encodeCol(lon_.v, st.minLon, lonDiv)
        char == IF lon_.nan THEN "undefined" ELSE DIGIPIN_GRID[row + 1][col + 1]
        hyphen == IF hyphenAfter(precision_, level) THEN <<"-">> ELSE <<>>
        newMinLon == st.minLon + lonDiv * col
    IN  [digiPin |-> Append(st.digiPin, char) \o hyphen,
         maxLat |-> st.minLat + latDiv * (4 - row),
         minLat |-> st.minLat + latDiv * (3 - row),
         minLon |-> IF lon_.nan THEN st.minLon ELSE newMinLon,
         maxLon |-> IF lon_.nan THEN st.maxLon ELSE newMinLon + lonDiv,
         lonIsNaN |-> lon_.nan]

RECURSIVE encodeLoop_StopsEarly(_, _, _, _, _)
encodeLoop_StopsEarly(latV, lon_, precision_, level, st) ==
    IF level >= precision_ THEN st
    ELSE encodeLoop_StopsEarly(latV, lon_, precision_, level + 1,
                               encodeStep(latV, lon_, precision_, level, st))

\* for (let level = 1; level <= precision; level++)
RECURSIVE encodeLoop(_, _, _, _, _)
encodeLoop(latV, lon_, precision_, level, st) ==
    IF level > precision_ THEN st
    ELSE encodeLoop(latV, lon_, precision_, level + 1,
                    encodeStep(latV, lon_, precision_, level, st))

encodeStart ==
    [digiPin |-> <<>>, minLat |-> BOUNDS.minLat, maxLat |-> BOUNDS.maxLat,
     minLon |-> BOUNDS.minLon, maxLon |-> BOUNDS.maxLon, lonIsNaN |-> FALSE]

encode(lat_, lon_, precision_) ==
    IF lat_.type # "number" \/ lon_.type # "number"
    THEN Throw("Latitude and longitude must be numbers")
    ELSE IF precision_ < 1 \/ precision_ > MaxPrecision
    THEN Throw("Precision must be between 1 and 10")
    ELSE IF JsLess(lat_, Num(BOUNDS.minLat)) \/ JsGreater(lat_, Num(BOUNDS.maxLat))
    THEN Throw("Latitude out of range")
    ELSE IF JsLess(lon_, Num(BOUNDS.minLon)) \/ JsGreater(lon_, Num(BOUNDS.maxLon))
    THEN Throw("Longitude out of range")
    ELSE IF lat_.nan
    \* row is NaN: DIGIPIN_GRID[NaN] is undefined and indexing it throws
    THEN Throw("TypeError: Cannot read properties of undefined")
    ELSE Return(encodeLoop(lat_.v, lon_, precision_, 1, encodeStart).digiPin)

----------------------------------------------------------------------------
(* lib/core/decoder.js : decode                                            *)

decodeStart ==
    [minLat |-> BOUNDS.minLat, maxLat |-> BOUNDS.maxLat,
     minLon |-> BOUNDS.minLon, maxLon |-> BOUNDS.maxLon]

decodeStep_WrongBase(char, st) ==
    LET ri == CHAR_TO_POSITION[char].row
        ci == CHAR_TO_POSITION[char].col
        latDiv == (st.maxLat - st.minLat) \div 4
        lonDiv == (st.maxLon - st.minLon) \div 4
    IN  [minLat |-> st.minLat - latDiv * (ri + 1),
         maxLat |-> st.minLat - latDiv * ri,
         minLon |-> st.minLon + lonDiv * ci,
         maxLon |-> st.minLon + lonDiv * (ci + 1)]

decodeStep_KeepsEast(char, st) ==
    LET ri == CHAR_TO_POSITION[char].row
        ci == CHAR_TO_POSITION[char].col
        latDiv == (st.maxLat - st.minLat) \div 4
        lonDiv == (st.maxLon - st.minLon) \div 4
    IN  [minLat |-> st.maxLat - latDiv * (ri + 1),
         maxLat |-> st.maxLat - latDiv * ri,
         minLon |-> st.minLon + lonDiv * ci,
         maxLon |-> st.maxLon]

\* the body of the for loop of decode for a symbol of the alphabet
decodeStep(char, st) ==
    LET ri == CHAR_TO_POSITION[char].row
        ci == CHAR_TO_POSITION[char].col
        latDiv == (st.maxLat - st.minLat) \div 4
        lonDiv == (st.maxLon - st.minLon) \div 4
    IN  [minLat |-> st.maxLat - latDiv * (ri + 1),
         maxLat |-> st.maxLat - latDiv * ri,
         minLon |-> st.minLon + lonDiv * ci,
         maxLon |-> st.minLon + lonDiv * (ci + 1)]

\* Math.cos(centerLat * Math.PI / 180) in thousandths, rounded down, at the
\* whole degree at or below the size of centerLat: the table holds 0..89
\* degrees, and from 90 degrees on, where no latitude is, the factor is not
\* positive and is taken as 0
cosThousandths(centerLat) ==
    LET table == << 1000,  999,  999,  998,  997,  996,  994,  992,  990,  987,
                  984,  981,  978,  974,  970,  965,  961,  956,  951,  945,
                  939,  933,  927,  920,  913,  906,  898,  891,  882,  874,
                  866,  857,  848,  838,  829,  819,  809,  798,  788,  777,
                  766,  754,  743,  731,  719,  707,  694,  681,  669,  656,
                  642,  629,  615,  601,  587,  573,  559,  544,  529,  515,
                  500,  484,  469,  453,  438,  422,  406,  390,  374,  358,
                  342,  325,  309,  292,  275,  258,  241,  224,  207,  190,
                  173,  156,  139,  121,  104,   87,   69,   52,   34,   17 >>
        degree == (IF centerLat < 0 THEN -centerLat ELSE centerLat) \div 2^19
    IN  IF degree + 1 \in DOMAIN table THEN table[degree + 1] ELSE 0

approximateMeters_AtLeastOneStep(latDegrees, lonDegrees, centerLat) ==
    LET step == 4 * 18
    IN  IF latDegrees > step THEN latDegrees ELSE step

\* Math.max(latDegrees * 111000, lonDegrees * 111000 * Math.cos(...))
approximateMeters(latDegrees, lonDegrees, centerLat) ==
    LET cos == cosThousandths(centerLat)
        lonMeters == (lonDegrees \div 1000) * cos + ((lonDegrees % 1000) * cos) \div 1000
    IN  IF latDegrees > lonMeters THEN latDegrees ELSE lonMeters

\* the result with the north edge reported as the latitude
decodeResult_NorthEdge(pin, st) ==
    [latitude |-> st.maxLat,
     longitude |-> (st.minLon + st.maxLon) \div 2,
     precision |-> Len(pin),
     bounds |-> [north |-> st.maxLat, south |-> st.minLat,
                 east |-> st.maxLon, west |-> st.minLon],
     accuracy |-> [latDegrees |-> st.maxLat - st.minLat,
                   lonDegrees |-> st.maxLon - st.minLon,
                   approximateMeters |->
                       approximateMeters(st.maxLat - st.minLat, st.maxLon - st.minLon,
                                         (st.minLat + st.maxLat) \div 2)]]

decodeResult(pin, st) ==
    [latitude |-> (st.minLat + st.maxLat) \div 2,
     longitude |-> (st.minLon + st.maxLon) \div 2,
     precision |-> Len(pin),
     bounds |-> [north |-> st.maxLat, south |-> st.minLat,
                 east |-> st.maxLon, west |-> st.minLon],
     accuracy |-> [latDegrees |-> st.maxLat - st.minLat,
                   lonDegrees |-> st.maxLon - st.minLon,
                   approximateMeters |->
                       approximateMeters(st.maxLat - st.minLat, st.maxLon - st.minLon,
                                         (st.minLat + st.maxLat) \div 2)]]

invalidCharacter_ZeroBased(char, i) ==
    [threw |-> TRUE, value |-> <<>>,
     error |-> [message |-> "Invalid character", char |-> char,
                position |-> i - 1, length |-> 0]]

\* throw new Error(`Invalid character '${char}' at position ${i + 1}. ...`);
\* the parameter i is the 1-based index, the code's i + 1
invalidCharacter(char, i) ==
    [threw |-> TRUE, value |-> <<>>,
     error |-> [message |-> "Invalid character", char |-> char,
                position |-> i, length |-> 0]]

\* throw new Error(`Invalid DIGIPIN length: ${pin.length}. Must be 1-10 characters.`)
invalidLength(pin) ==
    [threw |-> TRUE, value |-> <<>>,
     error |-> [message |-> "Invalid DIGIPIN length", char |-> "",
                position |-> 0, length |-> Len(pin)]]

\* the for loop of decode; i is the 1-based index of the symbol
RECURSIVE decodeLoop(_, _, _)
decodeLoop(pin, i, st) ==
    IF i > Len(pin) THEN Return(decodeResult(pin, st))
    ELSE IF pin[i] \notin DOMAIN CHAR_TO_POSITION
    THEN invalidCharacter(pin[i], i)
    ELSE decodeLoop(pin, i + 1, decodeStep(pin[i], st))

sanitize_KeepsCase(s) == replaceHyphens(s)

\* digiPin.replace(/-/g, '').toUpperCase()
sanitize(s) == toUpperCase(replaceHyphens(s))

decode(digiPin_) ==
    IF digiPin_.type # "string" THEN Throw("DIGIPIN must be a string")
    ELSE LET pin == sanitize(digiPin_.v)
         IN  IF Len(pin) = 0 \/ Len(pin) > 10
             THEN invalidLength(pin)
             ELSE decodeLoop(pin, 1, decodeStart)

----------------------------------------------------------------------------
(* lib/core/encoder.js : encodeWithBounds                                  *)

\* the search of DIGIPIN_GRID for a symbol: ri and ci stay -1 when it is not
\* found (the pieces "undefined" that encode emits for a longitude of NaN)
gridPosition(char) ==
    IF char \in DOMAIN CHAR_TO_POSITION
    THEN [ri |-> CHAR_TO_POSITION[char].row, ci |-> CHAR_TO_POSITION[char].col]
    ELSE [ri |-> -1, ci |-> -1]

boundsStep_KeepsWest(char, st) ==
    LET at == gridPosition(char)
        latDiv == (st.maxLat - st.minLat) \div 4
        lonDiv == (st.maxLon - st.minLon) \div 4
    IN  [minLat |-> st.maxLat - latDiv * (at.ri + 1),
         maxLat |-> st.maxLat - latDiv * at.ri,
         minLon |-> st.minLon,
         maxLon |-> st.minLon + lonDiv * (at.ci + 1)]

\* the body of the for loop of encodeWithBounds
boundsStep(char, st) ==
    LET at == gridPosition(char)
        latDiv == (st.maxLat - st.minLat) \div 4
        lonDiv == (st.maxLon - st.minLon) \div 4
    IN  [minLat |-> st.maxLat - latDiv * (at.ri + 1),
         maxLat |-> st.maxLat - latDiv * at.ri,
         minLon |-> st.minLon + lonDiv * at.ci,
         maxLon |-> st.minLon + lonDiv * (at.ci + 1)]

\* for (let i = 0; i < Math.min(cleanPin.length, precision); i++), i 1-based
RECURSIVE boundsLoop(_, _, _, _)
boundsLoop(cleanPin, precision_, i, st) ==
    IF i > Len(cleanPin) \/ i > precision_ THEN st
    ELSE boundsLoop(cleanPin, precision_, i + 1, boundsStep(cleanPin[i], st))

\* a throw of encode propagates.  The area, a product of two extents, is kept
\* as its two factors.
encodeWithBounds(lat_, lon_, precision_) ==
    LET pin == encode(lat_, lon_, precision_)
    IN  IF pin.threw THEN pin
        ELSE LET st == boundsLoop(replaceHyphens(pin.value), precision_, 1, decodeStart)
             IN  Return([digipin |-> pin.value,
                         bounds |-> [north |-> st.maxLat, south |-> st.minLat,
                                     east |-> st.maxLon, west |-> st.minLon],
                         center |-> [lat |-> (st.minLat + st.maxLat) \div 2,
                                     lon |-> (st.minLon + st.maxLon) \div 2],
                         area |-> <<st.maxLat - st.minLat, st.maxLon - st.minLon>>])

----------------------------------------------------------------------------
(* lib/utils/geometry.js : isPointInDigipin, for a latitude and longitude  *)
(* that are numbers; a throw of decode propagates                          *)

isPointInDigipin(lat_, lon_, digipin) ==
    LET decoded == decode(digipin)
    IN  IF decoded.threw THEN decoded
        ELSE LET bounds == decoded.value.bounds
             IN  Return(/\ ~JsLess(lat_, Num(bounds.south)) /\ ~lat_.nan
                        /\ ~JsGreater(lat_, Num(bounds.north))
                        /\ ~JsLess(lon_, Num(bounds.west)) /\ ~lon_.nan
                        /\ ~JsGreater(lon_, Num(bounds.east)))

----------------------------------------------------------------------------
(* lib/utils/neighbors.js : getChildren, getParent                         *)

\* `${childPin.slice(0, 3)}-${childPin.slice(3, 6)}-${childPin.slice(6)}`
formatted(childPin) ==
    SubSeq(childPin, 1, 3) \o <<"-">> \o SubSeq(childPin, 4, 6) \o <<"-">>
        \o SubSeq(childPin, 7, Len(childPin))

getChildren_AllowsTen(digipin) ==
    IF digipin.type # "string" THEN Throw("TypeError: digipin.replace is not a function")
    ELSE LET cleanPin == replaceHyphens(digipin.v)
         IN  IF Len(cleanPin) > 10
             THEN Throw("Cannot get children of maximum precision DIGIPIN")
             ELSE Return([k \in 1..Len(DIGIPIN_CHARS) |->
                     LET childPin == Append(cleanPin, DIGIPIN_CHARS[k])
                     IN  IF Len(childPin) = 10 THEN formatted(childPin) ELSE childPin])

getChildren(digipin) ==
    IF digipin.type # "string" THEN Throw("TypeError: digipin.replace is not a function")
    ELSE LET cleanPin == replaceHyphens(digipin.v)
         IN  IF Len(cleanPin) >= 10
             THEN Throw("Cannot get children of maximum precision DIGIPIN")
             ELSE Return([k \in 1..Len(DIGIPIN_CHARS) |->
                     LET childPin == Append(cleanPin, DIGIPIN_CHARS[k])
                     IN  IF Len(childPin) = 10 THEN formatted(childPin) ELSE childPin])

getParent_AllowsOne(digipin) ==
    IF digipin.type # "string" THEN Throw("TypeError: digipin.replace is not a function")
    ELSE LET cleanPin == replaceHyphens(digipin.v)
         IN  IF Len(cleanPin) < 1
             THEN Throw("Cannot get parent of minimum precision DIGIPIN")
             ELSE Return(SubSeq(cleanPin, 1, Len(cleanPin) - 1))

getParent_KeepsHyphens(digipin) ==
    IF digipin.type # "string" THEN Throw("TypeError: digipin.replace is not a function")
    ELSE LET cleanPin == digipin.v
         IN  IF Len(cleanPin) <= 1
             THEN Throw("Cannot get parent of minimum precision DIGIPIN")
             ELSE Return(SubSeq(cleanPin, 1, Len(cleanPin) - 1))

getParent(digipin) ==
    IF digipin.type # "string" THEN Throw("TypeError: digipin.replace is not a function")
    ELSE LET cleanPin == replaceHyphens(digipin.v)
         IN  IF Len(cleanPin) <= 1
             THEN Throw("Cannot get parent of minimum precision DIGIPIN")
             ELSE Return(SubSeq(cleanPin, 1, Len(cleanPin) - 1))

----------------------------------------------------------------------------
(* lib/utils/neighbors.js : getSiblings, getNeighbors                      *)

\* children.filter(child => child.replace(/-/g, '') !== digipin.replace(/-/g, ''))
siblingsFilter(children, digipin) ==
    SelectSeq(children,
              LAMBDA child : replaceHyphens(child) # replaceHyphens(digipin.v))

\* every throw inside the try block (of getParent, of getChildren) is caught
\* and turned into the empty array
getSiblings(digipin) ==
    LET parent == getParent(digipin)
    IN  IF parent.threw THEN Return(<<>>)
        ELSE LET children == getChildren(Str(parent.value))
             IN  IF children.threw THEN Return(<<>>)
                 ELSE Return(siblingsFilter(children.value, digipin))

directions_NoDiagonals(latStep, lonStep) ==
    << [lat |-> latStep, lon |-> 0],
       [lat |-> 0, lon |-> lonStep],
       [lat |-> -latStep, lon |-> 0],
       [lat |-> 0, lon |-> -lonStep] >>

\* the northern offset two steps long
directions_NorthTwice(latStep, lonStep) ==
    << [lat |-> 2 * latStep, lon |-> 0],
       [lat |-> latStep, lon |-> lonStep],
       [lat |-> 0, lon |-> lonStep],
       [lat |-> -latStep, lon |-> lonStep],
       [lat |-> -latStep, lon |-> 0],
       [lat |-> -latStep, lon |-> -lonStep],
       [lat |-> 0, lon |-> -lonStep],
       [lat |-> latStep, lon |-> -lonStep] >>

\* N, NE, E, SE, S, SW, W, NW
directions(latStep, lonStep) ==
    << [lat |-> latStep, lon |-> 0],
       [lat |-> latStep, lon |-> lonStep],
       [lat |-> 0, lon |-> lonStep],
       [lat |-> -latStep, lon |-> lonStep],
       [lat |-> -latStep, lon |-> 0],
       [lat |-> -latStep, lon |-> -lonStep],
       [lat |-> 0, lon |-> -lonStep],
       [lat |-> latStep, lon |-> -lonStep] >>

\* a throw of decode propagates; an offset centre outside BOUNDS is not
\* encoded, a throw of encode is swallowed, and what is left is pushed in the
\* order of the directions
getNeighbors(digipin) ==
    LET decoded == decode(digipin)
    IN  IF decoded.threw THEN decoded
        ELSE LET bounds == decoded.value.bounds
                 latStep == bounds.north - bounds.south
                 lonStep == bounds.east - bounds.west
                 centerLat == decoded.value.latitude
                 centerLon == decoded.value.longitude
                 offsets == directions(latStep, lonStep)
                 attempt(d) ==
                     LET newLat == centerLat + d.lat
                         newLon == centerLon + d.lon
                     IN  IF /\ newLat >= BOUNDS.minLat /\ newLat <= BOUNDS.maxLat
                            /\ newLon >= BOUNDS.minLon /\ newLon <= BOUNDS.maxLon
                         THEN encode(Num(newLat), Num(newLon), decoded.value.precision)
                         ELSE Throw("outside BOUNDS")
                 attempts == [k \in 1..Len(offsets) |-> attempt(offsets[k])]
                 pushed == SelectSeq(attempts, LAMBDA a : ~a.threw)
             IN  Return([k \in 1..Len(pushed) |-> pushed[k].value])

radiusOffsets_KeepsCentre(radius) ==
    [k \in 1..((2 * radius + 1) * (2 * radius + 1)) |->
        [lat |-> ((k - 1) \div (2 * radius + 1)) - radius,
         lon |-> ((k - 1) % (2 * radius + 1)) - radius]]

\* for (latOffset = -radius..radius) for (lonOffset = -radius..radius), the
\* pair (0, 0) skipped: the offsets in the order of the two loops
radiusOffsets(radius) ==
    SelectSeq([k \in 1..((2 * radius + 1) * (2 * radius + 1)) |->
                  [lat |-> ((k - 1) \div (2 * radius + 1)) - radius,
                   lon |-> ((k - 1) % (2 * radius + 1)) - radius]],
              LAMBDA d : ~(d.lat = 0 /\ d.lon = 0))

\* a throw of decode propagates; an offset centre outside BOUNDS is not
\* encoded, a throw of encode is swallowed
getNeighborsInRadius(digipin, radius) ==
    LET decoded == decode(digipin)
    IN  IF decoded.threw THEN decoded
        ELSE LET bounds == decoded.value.bounds
                 latStep == bounds.north - bounds.south
                 lonStep == bounds.east - bounds.west
                 centerLat == decoded.value.latitude
                 centerLon == decoded.value.longitude
                 offsets == radiusOffsets(radius)
                 attempt(d) ==
                     LET newLat == centerLat + d.lat * latStep
                         newLon == centerLon + d.lon * lonStep
                     IN  IF /\ newLat >= BOUNDS.minLat /\ newLat <= BOUNDS.maxLat
                            /\ newLon >= BOUNDS.minLon /\ newLon <= BOUNDS.maxLon
                         THEN encode(Num(newLat), Num(newLon), decoded.value.precision)
                         ELSE Throw("outside BOUNDS")
                 attempts == [k \in 1..Len(offsets) |-> attempt(offsets[k])]
                 pushed == SelectSeq(attempts, LAMBDA a : ~a.threw)
             IN  Return([k \in 1..Len(pushed) |-> pushed[k].value])

\* lib/index.js, DigipinPlus.neighbors: radius === 1 ? getNeighbors(digipin)
\* : getNeighborsInRadius(digipin, radius)
neighbors(digipin, radius) ==
    IF radius = 1 THEN getNeighbors(digipin) ELSE getNeighborsInRadius(digipin, radius)

----------------------------------------------------------------------------
(* lib/core/validator.js : validate with the default options, isValid      *)

Whitespace == {" "}

\* String.prototype.trim
RECURSIVE trim(_)
trim(s) ==
    IF Len(s) = 0 THEN s
    ELSE IF s[1] \in Whitespace THEN trim(Tail(s))
    ELSE IF s[Len(s)] \in Whitespace THEN trim(SubSeq(s, 1, Len(s) - 1))
    ELSE s

\* originalPin.split('-'): the pieces between the hyphens
RECURSIVE split(_, _)
split(s, piece) ==
    IF Len(s) = 0 THEN <<piece>>
    ELSE IF s[1] = "-" THEN <<piece>> \o split(Tail(s), <<>>)
    ELSE split(Tail(s), Append(piece, s[1]))

\* accuracyMap[precision] || { meters: 0, ... }, the metres in tenths of a
\* metre (3.8 m is 38)
getEstimatedAccuracy(precision_) ==
    LET accuracyMap == <<10000000, 2500000, 625000, 156000, 39000,
                         10000, 2500, 600, 150, 38>>
    IN  [meters |-> IF precision_ \in DOMAIN accuracyMap
                    THEN accuracyMap[precision_] ELSE 0]

invalidResult(errors) == [isValid |-> FALSE, errors |-> errors, precision |-> 0]

formatAccepted_TwoPartsOnly(parts, cleanPin) ==
    Len(parts) = 2 /\ Len(cleanPin) <= 10

\* the two accepted groupings of a string that contains a hyphen
formatAccepted(parts, cleanPin) ==
    \/ Len(parts) = 2 /\ Len(cleanPin) <= 10
    \/ /\ Len(parts) = 3
       /\ Len(parts[1]) = 3 /\ Len(parts[2]) = 3 /\ Len(parts[3]) = 4

\* validate(digiPin) with options = {}: the result's isValid, the kinds of its
\* errors in order, and info.precision (0 when info stays empty)
validate(digiPin_) ==
    IF digiPin_.type # "string" THEN invalidResult(<<"DIGIPIN must be a string">>)
    ELSE IF Len(trim(digiPin_.v)) = 0 THEN invalidResult(<<"DIGIPIN cannot be empty">>)
    ELSE LET originalPin == toUpperCase(trim(digiPin_.v))
             cleanPin == replaceHyphens(originalPin)
             invalidChars == SelectSeq(cleanPin, LAMBDA char : char \notin Alphabet)
             charErrors ==
                 IF Len(invalidChars) > 0
                 THEN [k \in 1..Len(invalidChars) |-> "Invalid character"]
                          \o <<"Valid characters">>
                 ELSE <<>>
             formatErrors ==
                 IF "-" \in {originalPin[k] : k \in 1..Len(originalPin)}
                    /\ ~formatAccepted(split(originalPin, <<>>), cleanPin)
                 THEN <<"Invalid DIGIPIN format">>
                 ELSE <<>>
             errors == charErrors \o formatErrors
         IN  IF Len(cleanPin) = 0
             THEN invalidResult(<<"DIGIPIN contains no valid characters">>)
             ELSE IF Len(cleanPin) > 10
             THEN invalidResult(<<"DIGIPIN too long">>)
             ELSE IF Len(errors) > 0 THEN invalidResult(errors)
             ELSE [isValid |-> TRUE, errors |-> <<>>, precision |-> Len(cleanPin)]

\* validate throws nothing, so the catch of isValid is never entered
isValid(digiPin_) == validate(digiPin_).isValid

----------------------------------------------------------------------------
(* src/core/codec.ts, src/utils/neighbors.ts : the TypeScript API.  Its     *)
(* decode rounds the centre to 6 decimals, so its coordinates are integers  *)
(* in units of 10^-6 degree (micro-degrees).                                *)

DIGIPIN_LENGTH == 10
MAX_LEVEL == 10

\* DIGIPIN_PATTERNS.EITHER.test(trimmed), for an upper-cased string:
\* /^[FCJ2-9KLMPT]{3}-?[FCJ2-9KLMPT]{3}-?[FCJ2-9KLMPT]{4}$/i
matchesEither(trimmed) ==
    LET hyphens == {i \in 1..Len(trimmed) : trimmed[i] = "-"}
    IN  /\ \A i \in 1..Len(trimmed) : trimmed[i] \in Alphabet \cup {"-"}
        /\ \/ Len(trimmed) = 10 /\ hyphens = {}
           \/ Len(trimmed) = 11 /\ (hyphens = {4} \/ hyphens = {7})
           \/ Len(trimmed) = 12 /\ hyphens = {4, 8}

\* validateDigipinFormat: the result's valid and error
validateDigipinFormat(digipin) ==
    IF digipin.type # "string"
    THEN [valid |-> FALSE, error |-> "DIGIPIN must be a string"]
    ELSE LET trimmed == toUpperCase(trim(digipin.v))
             cleaned == replaceHyphens(trimmed)
         IN  IF ~matchesEither(trimmed)
             THEN [valid |-> FALSE, error |-> "Invalid DIGIPIN format"]
             ELSE IF Len(cleaned) # DIGIPIN_LENGTH
             THEN [valid |-> FALSE, error |-> "Invalid DIGIPIN length"]
             ELSE IF \E i \in 1..Len(cleaned) : cleaned[i] \notin Alphabet
             THEN [valid |-> FALSE, error |-> "Invalid characters in DIGIPIN"]
             ELSE [valid |-> TRUE, error |-> ""]

\* throws DigipinFormatError(validation.error) or returns
\* digipin.trim().toUpperCase().replace(/-/g, '')
sanitizeDigipin(digipin) ==
    LET validation == validateDigipinFormat(digipin)
    IN  IF ~validation.valid THEN Throw(validation.error)
        ELSE Return(replaceHyphens(toUpperCase(trim(digipin.v))))

\* parseFloat(x.toFixed(6)) of a coordinate of units of 2^-19 degree, in
\* micro-degrees: units * 10^6 / 2^19 = units * 15625 / 8192 rounded to the
\* nearest integer, a tie upwards, computed in three parts to stay in 32 bits
toFixed6(units) ==
    LET degrees == units \div 2^19
        rest == units % 2^19
    IN  degrees * 1000000 + (rest \div 8192) * 15625
        + ((rest % 8192) * 15625 + 4096) \div 8192

\* the coordinate of micro-degrees in units of 2^-19 degree, rounded down:
\* Math.floor((x - min) / div) of encode is the same for x and for x rounded
\* down to a unit, min and div being whole units
wholeUnits(micro) ==
    (micro \div 15625) * 8192 + ((micro % 15625) * 8192) \div 15625

\* the for loop of the codec's decode over the DIGIPIN_LENGTH symbols
RECURSIVE codecDecodeLoop(_, _, _)
codecDecodeLoop(cleanPin, i, st) ==
    IF i > DIGIPIN_LENGTH
    THEN Return([latitude |-> toFixed6((st.minLat + st.maxLat) \div 2),
                 longitude |-> toFixed6((st.minLon + st.maxLon) \div 2)])
    ELSE IF i > Len(cleanPin) \/ cleanPin[i] \notin Alphabet
    THEN Throw("Invalid character")
    ELSE codecDecodeLoop(cleanPin, i + 1, decodeStep(cleanPin[i], st))

\* decode of codec.ts: sanitizeDigipin's throw propagates
codecDecode(digipin) ==
    LET cleanPin == sanitizeDigipin(digipin)
    IN  IF cleanPin.threw THEN cleanPin
        ELSE codecDecodeLoop(cleanPin.value, 1, decodeStart)

\* validateCoordinates for two finite numbers of micro-degrees
validateCoordinates(latitude, longitude) ==
    IF latitude < toFixed6(BOUNDS.minLat) \/ latitude > toFixed6(BOUNDS.maxLat)
    THEN Throw("Latitude is outside India bounds")
    ELSE IF longitude < toFixed6(BOUNDS.minLon) \/ longitude > toFixed6(BOUNDS.maxLon)
    THEN Throw("Longitude is outside India bounds")
    ELSE Return([latitude |-> latitude, longitude |-> longitude])

\* encode of codec.ts: MAX_LEVEL passes of the loop of the JavaScript encode,
\* with hyphens after the levels 3 and 6 when options.format is truthy (the
\* default options are { format: true })
codecEncode(latitude, longitude, format) ==
    LET coords == validateCoordinates(latitude, longitude)
    IN  IF coords.threw THEN coords
        ELSE LET digiPin_ == encodeLoop(wholeUnits(coords.value.latitude),
                                        Num(wholeUnits(coords.value.longitude)),
                                        MAX_LEVEL, 1, encodeStart).digiPin
             IN  Return(IF format THEN digiPin_ ELSE replaceHyphens(digiPin_))

\* getParentDigipin of neighbors.ts; null is returned as Null
getParentDigipin(digipin) ==
    LET cleanPin == sanitizeDigipin(digipin)
    IN  IF cleanPin.threw THEN cleanPin
        ELSE IF Len(cleanPin.value) <= 1 THEN Return(Null)
        ELSE LET parentPin == SubSeq(cleanPin.value, 1, Len(cleanPin.value) - 1)
                 coords == codecDecode(Str(cleanPin.value))
                 parentCoords == codecDecode(Str(parentPin))
             IN  IF coords.threw THEN coords
                 ELSE IF parentCoords.threw THEN parentCoords
                 ELSE codecEncode(parentCoords.value.latitude,
                                  parentCoords.value.longitude, TRUE)

----------------------------------------------------------------------------
(* lib/utils/grid.js : generateGrid, for a bounds object of four numbers   *)

\* let cellSize = 36; for (let i = 1; i < precision; i++) cellSize /= 4;
\* 36 degrees in units, quartered exactly down to precision 11
RECURSIVE cellSizeLoop(_, _, _)
cellSizeLoop(i, precision_, cellSize) ==
    IF i < precision_ THEN cellSizeLoop(i + 1, precision_, cellSize \div 4)
    ELSE cellSize

gridStart_OneStepLower(x, cellSize) == (x \div cellSize) * cellSize - cellSize

\* Math.floor(south / cellSize) * cellSize
gridStart(x, cellSize) == (x \div cellSize) * cellSize

\* the values of the loop variable: from, from + cellSize, ... while <= to
gridLine(from, to, cellSize) ==
    [k \in 1..((to - from) \div cellSize + 1) |-> from + (k - 1) * cellSize]

\* digipins.add(...) for every element in order, then Array.from(digipins):
\* the first occurrences, in insertion order
arrayFromSet(added) ==
    LET marked == [k \in 1..Len(added) |->
                      [first |-> \A j \in 1..(k - 1) : added[j] # added[k],
                       digipin |-> added[k]]]
        kept == SelectSeq(marked, LAMBDA m : m.first)
    IN  [k \in 1..Len(kept) |-> kept[k].digipin]

extendsOutside_Never(bounds) == FALSE

\* south < BOUNDS.minLat || north > BOUNDS.maxLat || west < ... || east > ...
extendsOutside(bounds) ==
    \/ bounds.south < BOUNDS.minLat \/ bounds.north > BOUNDS.maxLat
    \/ bounds.west < BOUNDS.minLon \/ bounds.east > BOUNDS.maxLon

generateGrid(bounds, precision_) ==
    IF bounds.south >= bounds.north \/ bounds.west >= bounds.east
    THEN Throw("Invalid bounding box coordinates")
    ELSE IF extendsOutside(bounds)
    THEN Throw("Bounding box extends outside DIGIPIN coverage area")
    ELSE LET cellSize == cellSizeLoop(1, precision_, 36 * 2^19)
             lats == gridLine(gridStart(bounds.south, cellSize), bounds.north, cellSize)
             lons == gridLine(gridStart(bounds.west, cellSize), bounds.east, cellSize)
             attempt(lat_, lon_) ==
                 IF /\ lat_ >= BOUNDS.minLat /\ lat_ <= BOUNDS.maxLat
                    /\ lon_ >= BOUNDS.minLon /\ lon_ <= BOUNDS.maxLon
                 THEN encode(Num(lat_), Num(lon_), precision_)
                 ELSE Throw("outside BOUNDS")
             attempts == [k \in 1..(Len(lats) * Len(lons)) |->
                            attempt(lats[((k - 1) \div Len(lons)) + 1],
                                    lons[((k - 1) % Len(lons)) + 1])]
             encoded == SelectSeq(attempts, LAMBDA a : ~a.threw)
             added == [k \in 1..Len(encoded) |-> encoded[k].value]
         IN  Return(arrayFromSet(added))

----------------------------------------------------------------------------
(* src/utils/batch.ts : processBatch, batchEncode, batchDecode,            *)
(* batchValidate.  processBatch is an async function: its body runs up to  *)
(* an await and resumes in a later job, so it is a sequence of steps whose *)
(* position is batch.pc.                                                   *)

DEFAULT_BATCH_OPTIONS == [concurrency |-> 10, errorStrategy |-> "continue"]

\* the processors batchEncode, batchDecode and batchValidate hand to
\* processBatch.  None is an async function: a throw of encode or decode is a
\* throw of the call.  batchEncode passes { format: options.format }, which
\* is undefined unless the caller gives a format.
processor(kind, item) ==
    CASE kind = "batchEncode" -> codecEncode(item.latitude, item.longitude, FALSE)
      [] kind = "batchDecode" -> codecDecode(item)
      [] kind = "batchValidate" -> Return(~codecDecode(item).threw)

\* an element of the results array that was never assigned
Unset == [set |-> FALSE, value |-> <<>>]
\* no callback of the chunk has thrown a DigipinBatchError
NoRejection == [index |-> -1, processed |-> 0, total |-> 0]

\* before a call: results, errors, processed as processBatch initialises them
batchIdle ==
    [pc |-> "idle", kind |-> "", items |-> <<>>, opts |-> DEFAULT_BATCH_OPTIONS,
     onProgress |-> FALSE, i |-> 0, called |-> 0, awaiting |-> <<>>, resumed |-> 0,
     results |-> <<>>, errors |-> <<>>, processed |-> 0, progress |-> <<>>,
     rejection |-> NoRejection, calls |-> <<>>,
     promise |-> "pending", value |-> <<>>]

\* items.slice(i, i + opts.concurrency).length
chunkLength(b) ==
    IF Len(b.items) - b.i < b.opts.concurrency
    THEN Len(b.items) - b.i ELSE b.opts.concurrency

\* the callback of chunk.map up to its await, for the item of chunkIndex
\* b.called: the processor is called; if it returns, the callback awaits the
\* value; if it throws, the catch block runs at once: the error is pushed and,
\* with errorStrategy 'stop', the callback throws a DigipinBatchError, which
\* rejects its promise (Promise.all reports the first rejection)
callbackStart(b) ==
    LET globalIndex == b.i + b.called
        item == b.items[globalIndex + 1]
        result == processor(b.kind, item)
        call == [index |-> globalIndex, threw |-> result.threw]
    IN  IF ~result.threw
        THEN [b EXCEPT !.called = @ + 1,
                       !.calls = Append(@, call),
                       !.awaiting = Append(@, [index |-> globalIndex,
                                               result |-> result.value])]
        ELSE [b EXCEPT !.called = @ + 1,
                       !.calls = Append(@, call),
                       !.errors = Append(@, [index |-> globalIndex,
                                             error |-> result.error.message,
                                             input |-> item]),
                       !.rejection =
                           IF b.opts.errorStrategy = "stop" /\ @ = NoRejection
                           THEN [index |-> globalIndex, processed |-> b.processed,
                                 total |-> Len(b.items)]
                           ELSE @]

\* the callback after its await: results[globalIndex] = result; processed++;
\* opts.onProgress(processed, items.length) when a callback is given
callbackResume(b) ==
    LET settled == b.awaiting[b.resumed + 1]
    IN  [b EXCEPT !.resumed = @ + 1,
                  !.results[settled.index + 1] = [set |-> TRUE, value |-> settled.result],
                  !.processed = @ + 1,
                  !.progress = IF b.onProgress
                               THEN Append(@, <<b.processed + 1, Len(b.items)>>)
                               ELSE @]

\* results.length of the sparse array instead of the number of its elements
batchStats_CountsSlots(items, results, errors) ==
    [total |-> Len(items),
     successful |-> IF \E k \in 1..Len(results) : results[k].set
                    THEN CHOOSE k \in 1..Len(results) :
                            /\ results[k].set
                            /\ \A j \in (k + 1)..Len(results) : ~results[j].set
                    ELSE 0,
     failed |-> Len(errors)]

\* stats: total, successful, failed (the duration, a clock reading, is left out)
batchStats(items, results, errors) ==
    [total |-> Len(items),
     successful |-> Len(SelectSeq(results, LAMBDA r : r.set)),
     failed |-> Len(errors)]

\* the value processBatch returns
batchResult(b) ==
    LET defined == SelectSeq(b.results, LAMBDA r : r.set)
    IN  [results |-> [k \in 1..Len(defined) |-> defined[k].value],
         errors |-> b.errors,
         stats |-> batchStats(b.items, b.results, b.errors)]

----------------------------------------------------------------------------
(* lib/index.js : the fluent API of the exported DigipinPlus instance      *)

\* !x for the values a caller passes: undefined, null and '' are falsy
Falsy(x) == x.type = "undefined" \/ x = Null \/ (x.type = "string" /\ x.v = <<>>)

\* lib/utils/geometry.js, digipinArea: a throw of decode propagates; the area
\* is latMeters * lonMeters, kept as its two factors in the units of
\* approximateMeters
digipinArea(digipin) ==
    LET decoded == decode(digipin)
    IN  IF decoded.threw THEN decoded
        ELSE LET bounds == decoded.value.bounds
                 cos == cosThousandths(decoded.value.latitude)
                 lonDegrees == bounds.east - bounds.west
             IN  Return([latMeters |-> bounds.north - bounds.south,
                         lonMeters |-> (lonDegrees \div 1000) * cos
                                       + ((lonDegrees % 1000) * cos) \div 1000])

\* lib/utils/distance.js, digipinDistance: a throw of either decode
\* propagates; the result is haversineDistance of the two centres, a
\* trigonometric function kept as its four arguments
digipinDistance(digipin1, digipin2) ==
    LET coord1 == decode(digipin1)
        coord2 == decode(digipin2)
    IN  IF coord1.threw THEN coord1
        ELSE IF coord2.threw THEN coord2
        ELSE Return([lat1 |-> coord1.value.latitude, lon1 |-> coord1.value.longitude,
                     lat2 |-> coord2.value.latitude, lon2 |-> coord2.value.longitude])

NoCurrent == Throw("No current DIGIPIN set")

\* getDistance, getNeighbors (radius = 1) and getArea of the instance whose
\* _currentDigipin is current
getDistance(current, otherDigipin) ==
    IF Falsy(current) THEN NoCurrent ELSE digipinDistance(current, otherDigipin)

chainGetNeighbors(current) ==
    IF Falsy(current) THEN NoCurrent ELSE neighbors(current, 1)

getArea(current) ==
    IF Falsy(current) THEN NoCurrent ELSE digipinArea(current)

\* the modules that require the package: each gets the same instance
Callers == {"a", "b"}

----------------------------------------------------------------------------
(* The callers' inputs                                                     *)

MaxTyped == 2

\* offsets, in units, of level-10 cell width and of BOUNDS' extent
CellUnits == (BOUNDS.maxLat - BOUNDS.minLat) \div 4^MaxPrecision
Extent == BOUNDS.maxLat - BOUNDS.minLat

\* (latitude, longitude) pairs inside BOUNDS: the four corners, points on
\* division lines of the coarsest and of the finest level, points one unit off a
\* division line of every level and of the finest level only, cell centres, and
\* the fixtures of test/test.js (Delhi, Mumbai)
ValidPoints ==
    { <<BOUNDS.minLat, BOUNDS.minLon>>,
      <<BOUNDS.maxLat, BOUNDS.maxLon>>,
      <<BOUNDS.minLat, BOUNDS.maxLon>>,
      <<BOUNDS.maxLat, BOUNDS.minLon>>,
      <<BOUNDS.minLat + Extent \div 4, BOUNDS.minLon + Extent \div 2>>,
      <<BOUNDS.minLat + Extent \div 4 - 1, BOUNDS.minLon + Extent \div 2 - 1>>,
      <<BOUNDS.minLat + Extent \div 2 + 1, BOUNDS.minLon + 3 * (Extent \div 4) + 1>>,
      <<BOUNDS.maxLat - CellUnits, BOUNDS.minLon + CellUnits>>,
      <<BOUNDS.maxLat - 1, BOUNDS.minLon + 1>>,
      <<BOUNDS.minLat + CellUnits + 1, BOUNDS.minLon + 3 * CellUnits - 1>>,
      <<BOUNDS.minLat + CellUnits \div 2, BOUNDS.maxLon - CellUnits \div 2>>,
      <<15001924, 40479752>>,
      <<10001317, 38208903>> }

Invalid == Str(<<"i", "n", "v", "a", "l", "i", "d">>)

\* argument pairs of encode: points inside BOUNDS, points off each edge, NaN and
\* non-number arguments
CoordinateInputs ==
    { <<Num(p[1]), Num(p[2])>> : p \in ValidPoints }
    \cup { <<Num(BOUNDS.minLat - 1), Num(BOUNDS.minLon)>>,
           <<Num(BOUNDS.maxLat + 1), Num(BOUNDS.maxLon)>>,
           <<Num(BOUNDS.minLat), Num(BOUNDS.minLon - 1)>>,
           <<Num(BOUNDS.maxLat), Num(BOUNDS.maxLon + 1)>>,
           <<NaN, Num(40479752)>>,
           <<Num(15001924), NaN>>,
           <<Invalid, Num(40479752)>>,
           <<Num(15001924), Invalid>>,
           <<Null, Num(40479752)>>,
           <<Num(15001924), Undefined>> }

PrecisionInputs == 0..(MaxPrecision + 1)

\* what a caller types: the alphabet, the separator, lower-case letters of the
\* alphabet and symbols foreign to it
Keyboard == Alphabet \cup {"-", "f", "k", "X", "z"}
Foreign == {"X", "z"}

\* the largest radius of a neighbourhood
MaxRadius == 2

RadiusInputs == 1..MaxRadius

\* the rectangle of test/test.js ('Grid generation'): north 28.7, south 28.6,
\* east 77.3, west 77.2, to the nearest unit
TestBounds ==
    [north |-> 15047066, south |-> 14994637, east |-> 40527462, west |-> 40475034]

\* a rectangle whose south-west corner is (south, west), high and wide a
\* number of cells of a level
Box(south, west, high, wide, level) ==
    [north |-> south + high * (Extent \div 4^level), south |-> south,
     east |-> west + wide * (Extent \div 4^level), west |-> west]

WholeBounds ==
    [north |-> BOUNDS.maxLat, south |-> BOUNDS.minLat,
     east |-> BOUNDS.maxLon, west |-> BOUNDS.minLon]

\* argument pairs of generateGrid: the test's rectangle and the whole of BOUNDS
\* at the coarse precisions, for every precision rectangles of one and of a few
\* cells in a corner of BOUNDS and inside it; rectangles reaching beyond an edge
\* of BOUNDS, and malformed ones
GridInputs ==
    { <<TestBounds, p>> : p \in 0..7 }
    \cup { <<WholeBounds, p>> : p \in 1..3 }
    \cup { <<Box(BOUNDS.minLat, BOUNDS.minLon, high, wide, p), p>> :
              high \in {1, 6}, wide \in {1, 6}, p \in 1..MaxPrecision }
    \cup { <<Box(15001924, 40479752, 1, 9, p), p>> : p \in 1..MaxPrecision }
    \cup { <<Box(BOUNDS.maxLat - 5 * CellUnits, BOUNDS.maxLon - 5 * CellUnits, 5, 5, MaxPrecision), p>> :
              p \in {MaxPrecision, MaxPrecision + 1} }
    \cup { <<Box(BOUNDS.minLat - CellUnits, BOUNDS.minLon, 6, 6, MaxPrecision), MaxPrecision>>,
           <<Box(BOUNDS.minLat, BOUNDS.minLon - 1, 1, 1, 4), 4>>,
           <<Box(BOUNDS.maxLat - Extent \div 4, BOUNDS.maxLon - Extent \div 4, 1, 2, 1), 1>>,
           <<Box(BOUNDS.maxLat - CellUnits, 40479752, 2, 1, MaxPrecision), MaxPrecision>>,
           <<[TestBounds EXCEPT !.north = TestBounds.south], 6>>,
           <<[TestBounds EXCEPT !.east = TestBounds.west - 1], 6>> }

\* the largest number of items of a batch
MaxItems == 3

BatchKinds == {"batchEncode", "batchDecode", "batchValidate"}

\* the items of src/__tests__/batch.test.ts: Delhi and { latitude: 100,
\* longitude: 200 } in micro-degrees, '39J-438-TJC7' and 'INVALID-PIN'
ItemInputs(kind) ==
    IF kind = "batchEncode"
    THEN {[latitude |-> 28613900, longitude |-> 77209000],
          [latitude |-> 100000000, longitude |-> 200000000]}
    ELSE {Str(<<"3", "9", "J", "-", "4", "3", "8", "-", "T", "J", "C", "7">>),
          Str(<<"I", "N", "V", "A", "L", "I", "D", "-", "P", "I", "N">>)}

BatchInputs(kind) == UNION {[1..n -> ItemInputs(kind)] : n \in 0..MaxItems}

\* { ...DEFAULT_BATCH_OPTIONS, ...options }: chunks of one item, of two items
\* and of the default size, and the three error strategies
BatchOptionInputs ==
    [concurrency : {1, 2, DEFAULT_BATCH_OPTIONS.concurrency},
     errorStrategy : {"continue", "stop", "collect"}]

\* the arguments of from(): the test's point at two precisions, a corner of
\* BOUNDS, a latitude outside BOUNDS and a precision outside 1..10
FromInputs ==
    {<<Num(15001924), Num(40479752), 10>>,
     <<Num(15001924), Num(40479752), 4>>,
     <<Num(BOUNDS.minLat), Num(BOUNDS.minLon), 10>>,
     <<Num(BOUNDS.maxLat + 1), Num(40479752), 10>>,
     <<Num(15001924), Num(40479752), 0>>}

\* the values handed to to() and to getDistance(): codes, the empty string
\* and undefined
CodeInputs ==
    {Str(<<"3", "9", "J", "-", "4", "3", "8", "-", "T", "J", "C", "7">>),
     Str(<<"4", "P">>)}
ToInputs == CodeInputs \cup {Str(<<>>), Undefined}

----------------------------------------------------------------------------
(* Actions: one per call, and the callers' ways of producing an argument   *)

Init ==
    /\ lat = Undefined
    /\ lon = Undefined
    /\ precision = 0
    /\ gridBounds = Undefined
    /\ digiPin = Str(<<>>)
    /\ origin = <<>>
    /\ via = "init"
    /\ ret = [op |-> "none"] @@ Return(<<>>)
    /\ batch = batchIdle
    /\ currentDigipin = Undefined
    /\ own = [c \in Callers |-> Undefined]
    /\ succeeded = FALSE

Call(op, outcome) == [op |-> op] @@ outcome

\* const pin = encode(lat, lon, precision), the first call of a scenario: a
\* throw leaves pin undefined
Encode ==
    /\ via = "init"
    /\ \E c \in CoordinateInputs, p \in PrecisionInputs :
        LET outcome == encode(c[1], c[2], p)
        IN  /\ lat' = c[1]
            /\ lon' = c[2]
            /\ precision' = p
            /\ ret' = Call("encode", outcome)
            /\ digiPin' = IF outcome.threw THEN Undefined ELSE Str(outcome.value)
            /\ origin' = IF outcome.threw THEN <<>> ELSE outcome.value
            /\ via' = "encode"
    /\ UNCHANGED <<gridBounds, batchVars, chainVars>>

\* the caller types a code symbol by symbol
Type ==
    /\ via \in {"init", "typed"}
    /\ Len(digiPin.v) < MaxTyped
    /\ \E char \in Keyboard :
        /\ digiPin' = Str(Append(digiPin.v, char))
        /\ origin' = Append(digiPin.v, char)
    /\ via' = "typed"
    /\ ret' = Call("none", Return(<<>>))
    /\ UNCHANGED <<lat, lon, precision, gridBounds, batchVars, chainVars>>

Edited(how, s) ==
    /\ via = "encode"
    /\ digiPin.type = "string"
    /\ digiPin' = s
    /\ via' = how
    /\ ret' = Call("none", Return(<<>>))
    /\ UNCHANGED <<lat, lon, precision, gridBounds, origin, batchVars, chainVars>>

\* the caller regroups an encoded code: one more separator, anywhere
InsertSeparator ==
    /\ digiPin.type = "string"
    /\ \E i \in 0..Len(digiPin.v) :
        Edited("separator",
               Str(SubSeq(digiPin.v, 1, i) \o <<"-">> \o SubSeq(digiPin.v, i + 1, Len(digiPin.v))))

\* the caller removes the separators of an encoded code
RemoveSeparators ==
    /\ digiPin.type = "string"
    /\ Edited("stripped", Str(replaceHyphens(digiPin.v)))

\* the caller lower-cases an encoded code
LowerCase ==
    /\ digiPin.type = "string"
    /\ Edited("lowercase", Str(toLowerCase(digiPin.v)))

\* the caller mistypes one symbol of an encoded code
Mistype ==
    /\ digiPin.type = "string"
    /\ \E i \in 1..Len(digiPin.v), char \in Foreign :
        Edited("mistyped", Str([digiPin.v EXCEPT ![i] = char]))

\* the caller adds a symbol at the end of an encoded code
Extend ==
    /\ digiPin.type = "string"
    /\ \E char \in {"F", "X"} :
        Edited("extended", Str(Append(digiPin.v, char)))

\* the caller passes an encoded code with a blank before or after it
Pad ==
    /\ digiPin.type = "string"
    /\ \E s \in {<<" ">> \o digiPin.v, Append(digiPin.v, " ")} :
        Edited("padded", Str(s))

\* the caller passes null instead of a string
PassNull ==
    /\ via = "init"
    /\ digiPin' = Null
    /\ via' = "null"
    /\ ret' = Call("none", Return(<<>>))
    /\ UNCHANGED <<lat, lon, precision, gridBounds, origin, batchVars, chainVars>>

\* encodeWithBounds(lat, lon, precision) with the arguments of the encode call
EncodeWithBounds ==
    /\ via = "encode"
    /\ ret' = Call("encodeWithBounds", encodeWithBounds(lat, lon, precision))
    /\ UNCHANGED <<codecVars, batchVars, chainVars>>

Decode ==
    /\ ret' = Call("decode", decode(digiPin))
    /\ UNCHANGED <<codecVars, batchVars, chainVars>>

IsPointInDigipin ==
    /\ lat.type = "number"
    /\ lon.type = "number"
    /\ ret' = Call("isPointInDigipin", isPointInDigipin(lat, lon, digiPin))
    /\ UNCHANGED <<codecVars, batchVars, chainVars>>

GetChildren ==
    /\ ret' = Call("getChildren", getChildren(digiPin))
    /\ UNCHANGED <<codecVars, batchVars, chainVars>>

GetParent ==
    /\ ret' = Call("getParent", getParent(digiPin))
    /\ UNCHANGED <<codecVars, batchVars, chainVars>>

\* getChildren(code).map(getParent): the parent of every child of the code
ParentOfChildren ==
    /\ LET children == getChildren(digiPin)
       IN  ret' = Call("parentOfChildren",
                       IF children.threw THEN children
                       ELSE Return([k \in 1..Len(children.value) |->
                                       getParent(Str(children.value[k]))]))
    /\ UNCHANGED <<codecVars, batchVars, chainVars>>

GetSiblings ==
    /\ ret' = Call("getSiblings", getSiblings(digiPin))
    /\ UNCHANGED <<codecVars, batchVars, chainVars>>

GetNeighbors ==
    /\ ret' = Call("getNeighbors", getNeighbors(digiPin))
    /\ UNCHANGED <<codecVars, batchVars, chainVars>>

\* getNeighborsInRadius(pin, radius) for the pin of the encode call; the radius
\* is kept with the outcome
GetNeighborsInRadius ==
    /\ via = "encode"
    /\ \E radius \in RadiusInputs :
        ret' = [radius |-> radius]
               @@ Call("getNeighborsInRadius", getNeighborsInRadius(digiPin, radius))
    /\ UNCHANGED <<codecVars, batchVars, chainVars>>

GetParentDigipin ==
    /\ ret' = Call("getParentDigipin", getParentDigipin(digiPin))
    /\ UNCHANGED <<codecVars, batchVars, chainVars>>

\* const grid = generateGrid(bounds, precision), the first call of a scenario
GenerateGrid ==
    /\ via = "init"
    /\ \E g \in GridInputs :
        /\ gridBounds' = g[1]
        /\ precision' = g[2]
        /\ ret' = Call("generateGrid", generateGrid(g[1], g[2]))
    /\ via' = "grid"
    /\ UNCHANGED <<lat, lon, digiPin, origin, batchVars, chainVars>>

Validate ==
    /\ ret' = Call("validate", Return(validate(digiPin)))
    /\ UNCHANGED <<codecVars, batchVars, chainVars>>

Next ==
    \/ Encode
    \/ Type
    \/ InsertSeparator
    \/ RemoveSeparators
    \/ LowerCase
    \/ Mistype
    \/ Extend
    \/ Pad
    \/ PassNull
    \/ EncodeWithBounds
    \/ Decode
    \/ IsPointInDigipin
    \/ GetChildren
    \/ GetParent
    \/ ParentOfChildren
    \/ GetSiblings
    \/ GetNeighbors
    \/ GetNeighborsInRadius
    \/ GenerateGrid
    \/ Validate
    \/ GetParentDigipin

Spec == Init /\ [][Next]_vars

----------------------------------------------------------------------------
(* The steps of a processBatch call                                        *)

\* batchEncode(items, options), batchDecode(...) or batchValidate(...) is
\* called: processBatch runs to the test of its for loop
StartBatch ==
    /\ batch.pc = "idle"
    /\ \E kind \in BatchKinds, opts \in BatchOptionInputs, onProgress \in BOOLEAN :
        \E items \in BatchInputs(kind) :
            batch' = [batchIdle EXCEPT !.pc = "loop", !.kind = kind, !.items = items,
                                       !.opts = opts, !.onProgress = onProgress,
                                       !.results = [k \in 1..Len(items) |-> Unset]]
    /\ UNCHANGED <<codecVars, ret, chainVars>>

\* i < items.length: the next chunk is sliced and chunk.map starts
NextChunk ==
    /\ batch.pc = "loop"
    /\ batch.i < Len(batch.items)
    /\ batch' = [batch EXCEPT !.pc = "map", !.called = 0, !.awaiting = <<>>,
                              !.resumed = 0]
    /\ UNCHANGED <<codecVars, ret, chainVars>>

\* chunk.map calls the callback for the next item of the chunk
CallProcessor ==
    /\ batch.pc = "map"
    /\ batch.called < chunkLength(batch)
    /\ batch' = callbackStart(batch)
    /\ UNCHANGED <<codecVars, ret, chainVars>>

\* chunk.map has returned: await Promise.all(chunkPromises) suspends processBatch
PromiseAll ==
    /\ batch.pc = "map"
    /\ batch.called = chunkLength(batch)
    /\ batch' = [batch EXCEPT !.pc = "await"]
    /\ UNCHANGED <<codecVars, ret, chainVars>>

\* the jobs of the callbacks that await a result run in the order they were
\* queued, all of them before the job that resumes processBatch
ResumeCallback ==
    /\ batch.pc = "await"
    /\ batch.resumed < Len(batch.awaiting)
    /\ batch' = callbackResume(batch)
    /\ UNCHANGED <<codecVars, ret, chainVars>>

\* processBatch resumes: Promise.all rejected with the first DigipinBatchError,
\* which rejects the promise of processBatch, or the loop goes on with
\* i += opts.concurrency
ResumeBatch ==
    /\ batch.pc = "await"
    /\ batch.resumed = Len(batch.awaiting)
    /\ batch' = IF batch.rejection # NoRejection
                THEN [batch EXCEPT !.pc = "done", !.promise = "rejected",
                                   !.value = batch.rejection]
                ELSE [batch EXCEPT !.pc = "loop", !.i = @ + batch.opts.concurrency]
    /\ UNCHANGED <<codecVars, ret, chainVars>>

\* the loop is over: processBatch returns { results, errors, stats }
ReturnResult ==
    /\ batch.pc = "loop"
    /\ batch.i >= Len(batch.items)
    /\ batch' = [batch EXCEPT !.pc = "done", !.promise = "resolved",
                              !.value = batchResult(batch)]
    /\ UNCHANGED <<codecVars, ret, chainVars>>

NextBatch ==
    \/ StartBatch
    \/ NextChunk
    \/ CallProcessor
    \/ PromiseAll
    \/ ResumeCallback
    \/ ResumeBatch
    \/ ReturnResult

SpecBatch == Init /\ [][NextBatch]_vars

----------------------------------------------------------------------------
(* The calls of the fluent API, by the callers that share the instance     *)

\* from(lat, lon, precision): a throw of encode leaves _currentDigipin as it is
From(c) ==
    /\ \E args \in FromInputs :
        LET pin == encode(args[1], args[2], args[3])
        IN  /\ ret' = [op |-> "from", by |-> c, before |-> currentDigipin] @@ pin
            /\ currentDigipin' = IF pin.threw THEN currentDigipin ELSE Str(pin.value)
            /\ own' = IF pin.threw THEN own ELSE [own EXCEPT ![c] = Str(pin.value)]
            /\ succeeded' = (succeeded \/ ~pin.threw)
    /\ UNCHANGED <<codecVars, batchVars>>

\* to(digipin)
To(c) ==
    /\ \E digipin \in ToInputs :
        /\ ret' = [op |-> "to", by |-> c, before |-> currentDigipin] @@ Return(<<>>)
        /\ currentDigipin' = digipin
        /\ own' = [own EXCEPT ![c] = digipin]
    /\ succeeded' = TRUE
    /\ UNCHANGED <<codecVars, batchVars>>

\* the outcome of a get call with the caller and the value of _currentDigipin
\* the call found
Got(op, c, outcome) == [op |-> op, by |-> c, on |-> currentDigipin] @@ outcome

GetDistance(c) ==
    /\ \E otherDigipin \in CodeInputs :
        ret' = Got("getDistance", c, getDistance(currentDigipin, otherDigipin))
    /\ UNCHANGED <<codecVars, batchVars, chainVars>>

ChainGetNeighbors(c) ==
    /\ ret' = Got("getNeighbors", c, chainGetNeighbors(currentDigipin))
    /\ UNCHANGED <<codecVars, batchVars, chainVars>>

GetArea(c) ==
    /\ ret' = Got("getArea", c, getArea(currentDigipin))
    /\ UNCHANGED <<codecVars, batchVars, chainVars>>

NextChain ==
    \/ \E c \in Callers : From(c)
    \/ \E c \in Callers : To(c)
    \/ \E c \in Callers : GetDistance(c)
    \/ \E c \in Callers : ChainGetNeighbors(c)
    \/ \E c \in Callers : GetArea(c)

SpecChain == Init /\ [][NextChain]_vars

----------------------------------------------------------------------------
(* Properties of the codec                                                 *)

IsNumber(x) == x.type = "number" /\ ~x.nan

\* the arguments of the last encode call are inside the closed BOUNDS rectangle
InsideBounds ==
    /\ IsNumber(lat) /\ IsNumber(lon)
    /\ BOUNDS.minLat <= lat.v /\ lat.v <= BOUNDS.maxLat
    /\ BOUNDS.minLon <= lon.v /\ lon.v <= BOUNDS.maxLon

StrictlyInsideBounds ==
    /\ IsNumber(lat) /\ IsNumber(lon)
    /\ BOUNDS.minLat < lat.v /\ lat.v < BOUNDS.maxLat
    /\ BOUNDS.minLon < lon.v /\ lon.v < BOUNDS.maxLon

ValidPrecision == precision \in 1..MaxPrecision

\* the point lies on a division line of some level 1..precision
OnQuadrantBoundary ==
    LET cell == Extent \div 4^precision
    IN  \/ (lat.v - BOUNDS.minLat) % cell = 0
        \/ (lon.v - BOUNDS.minLon) % cell = 0

\* C1: round-trip containment.  For every point strictly inside BOUNDS that is
\* on no division line and every precision 1..10, isPointInDigipin(lat, lon,
\* encode(lat, lon, precision)) is true: the decoded bounds contain the point.
C1_RoundTripContainment ==
    (/\ ret.op = "isPointInDigipin" /\ via = "encode"
     /\ StrictlyInsideBounds /\ ValidPrecision /\ ~OnQuadrantBoundary)
    => (~ret.threw /\ ret.value = TRUE)

C1_Witness ==
    /\ ret.op = "isPointInDigipin" /\ via = "encode"
    /\ StrictlyInsideBounds /\ precision = 10 /\ ~OnQuadrantBoundary
    /\ lat.v = BOUNDS.maxLat - 1
    /\ ~ret.threw /\ ret.value = TRUE

\* C2: for a point inside BOUNDS and a precision p in 1..10, encode returns a
\* code that has, separators removed, exactly p symbols, all of the alphabet,
\* and decode of that code reports precision p.
C2_PrecisionIsLength ==
    /\ (ret.op = "encode" /\ InsideBounds /\ ValidPrecision)
       => /\ ~ret.threw
          /\ Len(replaceHyphens(ret.value)) = precision
          /\ \A i \in 1..Len(replaceHyphens(ret.value)) :
                replaceHyphens(ret.value)[i] \in Alphabet
    /\ (ret.op = "decode" /\ via = "encode" /\ InsideBounds /\ ValidPrecision)
       => (~ret.threw /\ ret.value.precision = precision)

C2_Witness ==
    /\ ret.op = "decode" /\ via = "encode" /\ InsideBounds /\ precision = 7
    /\ ~ret.threw /\ ret.value.precision = 7 /\ Len(digiPin.v) = 7

HyphenPositions(s) == {i \in 1..Len(s) : s[i] = "-"}

\* C3: the code encode returns has a separator after its 3rd and after its 6th
\* symbol (places 4 and 8 of the string) exactly when the precision is 10; for
\* the precisions 1..9 it has no separator.
C3_GroupedOnlyAtFullPrecision ==
    (ret.op = "encode" /\ InsideBounds /\ ValidPrecision)
    => /\ ~ret.threw
       /\ HyphenPositions(ret.value) = IF precision = 10 THEN {4, 8} ELSE {}

C3_Witness ==
    /\ ret.op = "encode" /\ InsideBounds /\ precision = 10 /\ ~ret.threw
    /\ Len(ret.value) = 12 /\ HyphenPositions(ret.value) = {4, 8}

\* C4: encode returns a code for every point of the closed BOUNDS rectangle and
\* every precision 1..10, and for every other argument (a coordinate outside
\* BOUNDS, a coordinate that is not a number, a precision below 1 or above 10)
\* it raises and the caller gets no code.
C4_TotalOnDomainFailsOutside ==
    ret.op = "encode"
    => IF InsideBounds /\ ValidPrecision
       THEN ~ret.threw /\ digiPin = Str(ret.value) /\ Len(ret.value) >= precision
       ELSE ret.threw /\ digiPin = Undefined

----------------------------------------------------------------------------
(* Properties of decode's input handling                                   *)

\* the string as decode reads it: separators removed, upper-cased
Stripped(s) == toUpperCase(replaceHyphens(s))

ForeignPlaces(pin) == {i \in 1..Len(pin) : pin[i] \notin Alphabet}
FirstForeign(pin) == CHOOSE i \in ForeignPlaces(pin) : \A j \in ForeignPlaces(pin) : i <= j

\* a string of 1..10 symbols (separators removed, upper-cased), all of the alphabet
IsValidCode(s) ==
    /\ Len(Stripped(s)) \in 1..10
    /\ ForeignPlaces(Stripped(s)) = {}

NamesFirstForeign(pin) ==
    /\ ret.threw
    /\ ret.error.message = "Invalid character"
    /\ ret.error.char = pin[FirstForeign(pin)]
    /\ ret.error.position = FirstForeign(pin)

\* C5 as claimed: decode succeeds exactly on the valid codes, raises on every
\* other argument, and whenever the string holds a foreign symbol the error
\* names the first such symbol and its 1-based place in the stripped code.
C5_ForeignSymbolAlwaysNamed ==
    ret.op = "decode"
    => /\ ~ret.threw <=> (digiPin.type = "string" /\ IsValidCode(digiPin.v))
       /\ (digiPin.type = "string" /\ ForeignPlaces(Stripped(digiPin.v)) # {})
          => NamesFirstForeign(Stripped(digiPin.v))

\* C5 as amended: decode succeeds exactly on the valid codes and raises on every
\* other argument; a string whose stripped length is outside 1..10 raises the
\* length error (naming the length, whatever its symbols); a string of stripped
\* length 1..10 that holds a foreign symbol raises the error naming the first
\* foreign symbol and its 1-based place in the stripped code.
C5_DecodeAcceptance ==
    ret.op = "decode"
    => /\ ~ret.threw <=> (digiPin.type = "string" /\ IsValidCode(digiPin.v))
       /\ (/\ digiPin.type = "string"
           /\ Len(Stripped(digiPin.v)) \in 1..10
           /\ ForeignPlaces(Stripped(digiPin.v)) # {})
          => NamesFirstForeign(Stripped(digiPin.v))
       /\ (digiPin.type = "string" /\ Len(Stripped(digiPin.v)) \notin 1..10)
          => /\ ret.threw
             /\ ret.error.message = "Invalid DIGIPIN length"
             /\ ret.error.length = Len(Stripped(digiPin.v))

C5_Witness ==
    /\ ret.op = "decode" /\ via = "mistyped" /\ ret.threw
    /\ Len(digiPin.v) = 12 /\ digiPin.v[9] = "z"
    /\ ret.error.char = "Z" /\ ret.error.position = 7

\* C6: decode ignores separators and letter case.  A valid code decoded after
\* the caller removed its separators, inserted a separator anywhere or
\* lower-cased it gives the latitude, longitude, precision and bounds of the
\* code itself; a typed string gives what its stripped upper-case form gives.
C6_SeparatorAndCaseInsensitive ==
    /\ (/\ ret.op = "decode" /\ via \in {"stripped", "separator", "lowercase"}
        /\ IsValidCode(origin))
       => (~ret.threw /\ ret.value = decode(Str(origin)).value)
    /\ (/\ ret.op = "decode" /\ via = "typed" /\ IsValidCode(digiPin.v))
       => (~ret.threw /\ ret.value = decode(Str(Stripped(digiPin.v))).value)

C6_Witness ==
    /\ ret.op = "decode" /\ via = "lowercase" /\ IsValidCode(origin)
    /\ digiPin.v # origin /\ Len(Stripped(origin)) = 10
    /\ ~ret.threw /\ ret.value = decode(Str(origin)).value

----------------------------------------------------------------------------
(* Properties of the cells                                                 *)

Inside(b, outer) ==
    /\ outer.south <= b.south /\ b.north <= outer.north
    /\ outer.west <= b.west /\ b.east <= outer.east

\* C7: monotonic nesting.  The bounds of a valid code of 2 symbols or more lie
\* inside the bounds of getParent(code), each extent is one quarter of the
\* parent's, and at least one edge differs.
C7_MonotonicNesting ==
    (ret.op = "decode" /\ ~ret.threw /\ ret.value.precision >= 2)
    => LET b == ret.value.bounds
           up == decode(Str(getParent(digiPin).value))
           outer == up.value.bounds
       IN  /\ ~up.threw
           /\ Inside(b, outer)
           /\ 4 * (b.north - b.south) = outer.north - outer.south
           /\ 4 * (b.east - b.west) = outer.east - outer.west
           /\ b.north > b.south /\ b.east > b.west
           /\ \/ b.south # outer.south \/ b.north # outer.north
              \/ b.west # outer.west \/ b.east # outer.east

C7_Witness ==
    /\ ret.op = "decode" /\ ~ret.threw /\ ret.value.precision = 10
    /\ Inside(ret.value.bounds, decode(Str(getParent(digiPin).value)).value.bounds)
    /\ ret.value.bounds.north - ret.value.bounds.south = CellUnits

\* the lengths the tiling is enumerated for
TilingLengths == {1, 2}

CodesOfLength(n) == [1..n -> Alphabet]

\* the bounds decode gives for every code of length 1, and of length 2
Cells1 == [d \in CodesOfLength(1) |-> decode(Str(d)).value.bounds]
Cells2 == [d \in CodesOfLength(2) |-> decode(Str(d)).value.bounds]
Cells(n) == IF n = 1 THEN Cells1 ELSE Cells2

\* the square of row r and column c of the 4^n by 4^n partition of BOUNDS
Square(n, r, c) ==
    LET side == Extent \div 4^n
    IN  [north |-> BOUNDS.minLat + side * (r + 1), south |-> BOUNDS.minLat + side * r,
         east |-> BOUNDS.minLon + side * (c + 1), west |-> BOUNDS.minLon + side * c]

\* every cell is inside BOUNDS and every square of the partition is a cell
CoversBounds(n) ==
    /\ \A d \in CodesOfLength(n) :
          Inside(Cells(n)[d], [north |-> BOUNDS.maxLat, south |-> BOUNDS.minLat,
                               east |-> BOUNDS.maxLon, west |-> BOUNDS.minLon])
    /\ \A r \in 0..(4^n - 1), c \in 0..(4^n - 1) :
          \E d \in CodesOfLength(n) : Cells(n)[d] = Square(n, r, c)

Covers1 == CoversBounds(1)
Covers2 == CoversBounds(2)

CommonInterior(a, b) ==
    /\ a.west < b.east /\ b.west < a.east
    /\ a.south < b.north /\ b.south < a.north

\* C8: tiling, for the lengths 1 and 2.  The cells of the 16^n codes of length
\* n cover BOUNDS exactly, and the cell of a decoded code of length n has no
\* common interior with the cell of any other code of that length.
C8_Tiling ==
    (ret.op = "decode" /\ ~ret.threw /\ ret.value.precision \in TilingLengths)
    => LET n == ret.value.precision
           pin == Stripped(digiPin.v)
       IN  /\ IF n = 1 THEN Covers1 ELSE Covers2
           /\ \A d \in CodesOfLength(n) :
                 d # pin => ~CommonInterior(ret.value.bounds, Cells(n)[d])

C8_Witness ==
    /\ ret.op = "decode" /\ ~ret.threw /\ ret.value.precision = 2
    /\ via = "typed" /\ digiPin.v = <<"T", "F">>
    /\ Covers2

----------------------------------------------------------------------------
(* Properties of the hierarchy navigation                                  *)

Distinct(list) == \A i, j \in 1..Len(list) : i # j => list[i] # list[j]

\* C9: getChildren of a string of stripped length L < 10 returns 16 pairwise
\* distinct codes, the k-th being (separators removed) the stripped input
\* followed by the k-th symbol of the alphabet matrix in row-major order; for
\* L >= 10 it raises.
C9_SixteenChildren ==
    (ret.op = "getChildren" /\ digiPin.type = "string")
    => LET cleanPin == replaceHyphens(digiPin.v)
       IN  IF Len(cleanPin) < 10
           THEN /\ ~ret.threw
                /\ Len(ret.value) = 16
                /\ Distinct(ret.value)
                /\ \A r \in 0..3, c \in 0..3 :
                      replaceHyphens(ret.value[4 * r + c + 1])
                          = Append(cleanPin, DIGIPIN_GRID[r + 1][c + 1])
           ELSE ret.threw

C9_Witness ==
    /\ ret.op = "getChildren" /\ digiPin.type = "string"
    /\ Len(replaceHyphens(digiPin.v)) = 9 /\ IsValidCode(digiPin.v)
    /\ ~ret.threw /\ Len(ret.value) = 16
    /\ ret.value[16] = formatted(Append(digiPin.v, "T"))

\* C10: children/parent inverse.  For a valid code C of stripped length 1..9,
\* getParent of every code of getChildren(C) returns the separator-stripped C,
\* also for length 9 where the children are grouped 3-3-4.
C10_ParentOfChildIsCode ==
    (/\ ret.op = "parentOfChildren" /\ digiPin.type = "string"
     /\ IsValidCode(digiPin.v) /\ Len(replaceHyphens(digiPin.v)) \in 1..9)
    => /\ ~ret.threw
       /\ Len(ret.value) = 16
       /\ \A k \in 1..Len(ret.value) :
             /\ ~ret.value[k].threw
             /\ ret.value[k].value = replaceHyphens(digiPin.v)

C10_Witness ==
    /\ ret.op = "parentOfChildren" /\ digiPin.type = "string"
    /\ IsValidCode(digiPin.v) /\ Len(digiPin.v) = 9
    /\ ~ret.threw /\ ret.value[7].value = digiPin.v
    /\ HyphenPositions(getChildren(digiPin).value[7]) = {4, 8}

\* C11: getParent of a string of stripped length L >= 2 returns the string
\* without its separators and without its last symbol, L - 1 symbols long; for
\* L <= 1 it raises and returns nothing.
C11_ParentIsPrefix ==
    (ret.op = "getParent" /\ digiPin.type = "string")
    => LET cleanPin == replaceHyphens(digiPin.v)
       IN  IF Len(cleanPin) >= 2
           THEN /\ ~ret.threw
                /\ Len(ret.value) = Len(cleanPin) - 1
                /\ \A i \in 1..Len(ret.value) : ret.value[i] = cleanPin[i]
                /\ HyphenPositions(ret.value) = {}
           ELSE /\ ret.threw
                /\ ret.value = <<>>
                /\ ret.error.message = "Cannot get parent of minimum precision DIGIPIN"

C11_Witness ==
    /\ ret.op = "getParent" /\ digiPin.type = "string"
    /\ HyphenPositions(digiPin.v) = {4, 8} /\ IsValidCode(digiPin.v)
    /\ ~ret.threw /\ Len(ret.value) = 9

\* C12: getSiblings is getChildren(getParent(code)) without the input's own
\* cell.  For every code decode accepts, of stripped length 2..10, it returns
\* exactly 15 codes, none denoting the cell of the input and all having the
\* parent cell of the input; for stripped length 1 it returns the empty list
\* and does not raise.
C12_FifteenSiblings ==
    (ret.op = "getSiblings" /\ digiPin.type = "string" /\ ~decode(digiPin).threw)
    => LET cell == decode(digiPin).value.bounds
       IN  IF Len(replaceHyphens(digiPin.v)) >= 2
           THEN /\ ~ret.threw
                /\ Len(ret.value) = 15
                /\ \A k \in 1..Len(ret.value) :
                      LET sibling == decode(Str(ret.value[k]))
                      IN  /\ ~sibling.threw
                          /\ sibling.value.bounds # cell
                          /\ decode(Str(getParent(Str(ret.value[k])).value)).value.bounds
                               = decode(Str(getParent(digiPin).value)).value.bounds
           ELSE ~ret.threw /\ ret.value = <<>>

\* a cell touches an edge of BOUNDS
TouchesEdge(b) ==
    \/ b.south = BOUNDS.minLat \/ b.north = BOUNDS.maxLat
    \/ b.west = BOUNDS.minLon \/ b.east = BOUNDS.maxLon

\* C13: for every code decode accepts, getNeighbors returns at most 8 codes,
\* and exactly 8 when the cell of the code touches no edge of BOUNDS.
C13_AtMostEightNeighbors ==
    (ret.op = "getNeighbors" /\ digiPin.type = "string" /\ ~decode(digiPin).threw)
    => /\ ~ret.threw
       /\ Len(ret.value) <= 8
       /\ ~TouchesEdge(decode(digiPin).value.bounds) => Len(ret.value) = 8

C13_Witness ==
    /\ ret.op = "getNeighbors" /\ digiPin.type = "string"
    /\ IsValidCode(digiPin.v) /\ Len(replaceHyphens(digiPin.v)) = 10
    /\ ~TouchesEdge(decode(digiPin).value.bounds)
    /\ ~ret.threw /\ Len(ret.value) = 8 /\ Distinct(ret.value)

----------------------------------------------------------------------------
(* Properties of the grid enumeration                                      *)

\* the last call was generateGrid with a precision of 1..10
GridCall == ret.op = "generateGrid" /\ precision \in 1..MaxPrecision

WellFormed(b) == b.south < b.north /\ b.west < b.east

InsideRoot(b) ==
    /\ BOUNDS.minLat <= b.south /\ b.north <= BOUNDS.maxLat
    /\ BOUNDS.minLon <= b.west /\ b.east <= BOUNDS.maxLon

\* width of a cell of a level, and the distance between two sample points of
\* generateGrid: four cells of the requested precision
CellPitch(level) == Extent \div 4^level
SampleStep(level) == 4 * CellPitch(level)

Larger(a, b) == IF a > b THEN a ELSE b
Smaller(a, b) == IF a < b THEN a ELSE b

\* the multiples of step in lo..hi
Multiples(lo, hi, step) ==
    {m * step : m \in ((lo + step - 1) \div step)..(hi \div step)}

\* the cell of the code holds a point of the lattice of multiples of step that
\* lies inside the rectangle b and that encode maps to the code
HasSampleIn(code, b, step) ==
    LET cell == decode(Str(code)).value.bounds
    IN  \E lat_ \in Multiples(Larger(b.south, cell.south), Smaller(b.north, cell.north), step),
           lon_ \in Multiples(Larger(b.west, cell.west), Smaller(b.east, cell.east), step) :
            encode(Num(lat_), Num(lon_), precision) = Return(code)

\* C14: for every rectangle generateGrid accepts and every precision 1..10 the
\* returned array has no duplicates, and every code in it has exactly
\* `precision` symbols, is accepted by validate/isValid and is decoded
\* without error.
C14_GridCodesUniqueAndValid ==
    (GridCall /\ ~ret.threw)
    => /\ Distinct(ret.value)
       /\ \A k \in 1..Len(ret.value) :
             /\ Len(replaceHyphens(ret.value[k])) = precision
             /\ isValid(Str(ret.value[k]))
             /\ validate(Str(ret.value[k])).precision = precision
             /\ ~decode(Str(ret.value[k])).threw

C14_Witness ==
    /\ GridCall /\ ~ret.threw /\ precision = MaxPrecision
    /\ Len(ret.value) >= 2
    /\ HyphenPositions(ret.value[1]) = {4, 8}
    /\ isValid(Str(ret.value[2]))

\* C15: generateGrid returns a non-empty array for every well-formed rectangle
\* inside BOUNDS and every precision 1..10.
C15_GridNonEmpty ==
    (GridCall /\ WellFormed(gridBounds) /\ InsideRoot(gridBounds))
    => ~ret.threw /\ Len(ret.value) > 0

Widened(b) ==
    [b EXCEPT !.south = b.south - SampleStep(precision) + 1,
              !.west = b.west - SampleStep(precision) + 1]

NextInColumn(a, b) ==
    /\ a.west = b.west /\ a.south < b.south
    /\ ~\E k \in 1..Len(ret.value) :
          LET c == decode(Str(ret.value[k])).value.bounds
          IN  c.west = a.west /\ a.south < c.south /\ c.south < b.south

NextInRow(a, b) ==
    /\ a.south = b.south /\ a.west < b.west
    /\ ~\E k \in 1..Len(ret.value) :
          LET c == decode(Str(ret.value[k])).value.bounds
          IN  c.south = a.south /\ a.west < c.west /\ c.west < b.west

\* C17: the sample lattice has the cell pitch of the requested precision,
\* Extent / 4^precision, along each axis: the cells of two consecutive sample
\* points are consecutive cells, one cell pitch apart.
C17_StepIsCellPitch ==
    (GridCall /\ ~ret.threw)
    => \A i, j \in 1..Len(ret.value) :
          LET a == decode(Str(ret.value[i])).value.bounds
              b == decode(Str(ret.value[j])).value.bounds
          IN  /\ NextInColumn(a, b) => b.south - a.south = CellPitch(precision)
              /\ NextInRow(a, b) => b.west - a.west = CellPitch(precision)

\* C18 as stated: no well-formed rectangle makes generateGrid raise, not even
\* one that reaches beyond BOUNDS.
C18_NeverRaisesOnWellFormed ==
    (GridCall /\ WellFormed(gridBounds)) => ~ret.threw

\* C18 amended: for a well-formed rectangle inside BOUNDS generateGrid does not
\* raise, skips the sample points outside BOUNDS and returns the code of every
\* sample point inside BOUNDS; for a well-formed rectangle that reaches beyond
\* BOUNDS it raises 'Bounding box extends outside DIGIPIN coverage area' and
\* returns nothing.
C18_SkipsInsideRaisesBeyond ==
    (GridCall /\ WellFormed(gridBounds))
    => IF InsideRoot(gridBounds)
       THEN /\ ~ret.threw
            /\ \A lat_ \in Multiples(Widened(gridBounds).south, gridBounds.north,
                                     SampleStep(precision)),
                  lon_ \in Multiples(Widened(gridBounds).west, gridBounds.east,
                                     SampleStep(precision)) :
                   IF /\ BOUNDS.minLat <= lat_ /\ lat_ <= BOUNDS.maxLat
                      /\ BOUNDS.minLon <= lon_ /\ lon_ <= BOUNDS.maxLon
                   THEN \E k \in 1..Len(ret.value) :
                           Return(ret.value[k]) = encode(Num(lat_), Num(lon_), precision)
                   ELSE \A k \in 1..Len(ret.value) :
                           LET cell == decode(Str(ret.value[k])).value.bounds
                           IN  ~(/\ cell.south <= lat_ /\ lat_ <= cell.north
                                 /\ cell.west <= lon_ /\ lon_ <= cell.east)
       ELSE /\ ret.threw
            /\ ret.value = <<>>
            /\ ret.error.message = "Bounding box extends outside DIGIPIN coverage area"

C18_Witness ==
    /\ GridCall /\ WellFormed(gridBounds) /\ InsideRoot(gridBounds)
    /\ gridStart(gridBounds.south, SampleStep(precision)) < BOUNDS.minLat
    /\ gridStart(gridBounds.west, SampleStep(precision)) < BOUNDS.minLon
    /\ ~ret.threw /\ Len(ret.value) >= 2

----------------------------------------------------------------------------
(* Properties of the reported accuracy                                     *)

\* (precision, approximateMeters) of the codes of every length 1..10 of the
\* sample points
AccuracySamples ==
    { LET decoded == decode(Str(encode(Num(p[1]), Num(p[2]), level).value)).value
      IN  [precision |-> decoded.precision,
           approximateMeters |-> decoded.accuracy.approximateMeters] :
        p \in ValidPoints, level \in 1..MaxPrecision }

\* C19: decode of a valid code of length L reports accuracy.latDegrees =
\* accuracy.lonDegrees = Extent / 4^L, and its accuracy.approximateMeters is
\* strictly below that of every code of length L - 1 and strictly above that
\* of every code of length L + 1; the estimate of validate's table strictly
\* decreases with the precision too.
C19_AccuracyMonotonic ==
    (ret.op = "decode" /\ ~ret.threw)
    => LET L == ret.value.precision
           accuracy == ret.value.accuracy
       IN  /\ accuracy.latDegrees = Extent \div 4^L
           /\ accuracy.lonDegrees = Extent \div 4^L
           /\ \A s \in AccuracySamples :
                 /\ s.precision = L + 1 => s.approximateMeters < accuracy.approximateMeters
                 /\ s.precision = L - 1 => s.approximateMeters > accuracy.approximateMeters
           /\ L < MaxPrecision
                 => getEstimatedAccuracy(L + 1).meters < getEstimatedAccuracy(L).meters

C19_Witness ==
    /\ ret.op = "decode" /\ ~ret.threw /\ ret.value.precision = 9
    /\ ret.value.accuracy.lonDegrees = 4 * CellUnits
    /\ \E s \in AccuracySamples :
          /\ s.precision = MaxPrecision
          /\ s.approximateMeters < ret.value.accuracy.approximateMeters

----------------------------------------------------------------------------
(* Properties of the boundary convention and of the working rectangle      *)

\* the (row, column) index of a code's cell in the 4^L by 4^L partition of
\* BOUNDS, rows counted from the south edge and columns from the west edge: the
\* symbol of matrix row r and column c selects band 3 - r from the south and
\* band c from the west
RECURSIVE IndexOf(_)
IndexOf(code) ==
    IF code = <<>> THEN [r |-> 0, c |-> 0]
    ELSE LET up == IndexOf(SubSeq(code, 1, Len(code) - 1))
             at == CHAR_TO_POSITION[code[Len(code)]]
         IN  [r |-> 4 * up.r + (3 - at.row), c |-> 4 * up.c + at.col]

\* the rectangle the first k symbols of a code select
BandOf(code, k) ==
    LET at == IndexOf(SubSeq(code, 1, k)) IN Square(k, at.r, at.c)

Repeated(char, n) == [i \in 1..n |-> char]

\* C23: the boundary convention of encode.  At every level the band chosen is
\* half-open: it holds the point, and the point is on the band's north (east)
\* edge only where that edge is the north (east) edge of the rectangle being
\* divided, so a point on an internal division line goes to the band north
\* (east) of the line.  encode(maxLat, maxLon, p) is p times the symbol of row
\* 0 and column 3, encode(minLat, minLon, p) is p times that of row 3, column 0.
C23_BoundaryConvention ==
    (ret.op = "encode" /\ InsideBounds /\ ValidPrecision)
    => /\ ~ret.threw
       /\ \A k \in 1..precision :
             LET code == replaceHyphens(ret.value)
                 outer == BandOf(code, k - 1)
                 band == BandOf(code, k)
             IN  /\ band.south <= lat.v
                 /\ lat.v < band.north
                    \/ (lat.v = outer.north /\ band.north = outer.north)
                 /\ band.west <= lon.v
                 /\ lon.v < band.east
                    \/ (lon.v = outer.east /\ band.east = outer.east)
       /\ (lat.v = BOUNDS.maxLat /\ lon.v = BOUNDS.maxLon)
          => replaceHyphens(ret.value) = Repeated(DIGIPIN_GRID[1][4], precision)
       /\ (lat.v = BOUNDS.minLat /\ lon.v = BOUNDS.minLon)
          => replaceHyphens(ret.value) = Repeated(DIGIPIN_GRID[4][1], precision)

\* a point on a division line of the first level
C23_Witness ==
    /\ ret.op = "encode" /\ ~ret.threw /\ precision = 10
    /\ lat.v = BOUNDS.minLat + Extent \div 4
    /\ lon.v = BOUNDS.minLon + Extent \div 2
    /\ replaceHyphens(ret.value) = <<"5">> \o Repeated("L", 9)

\* C28: re-encoding the centre is the identity on cells.  For every code c that
\* decode accepts, of L symbols, encode(decode(c).latitude, decode(c).longitude,
\* L) returns and has the symbols of c (separators and letter case aside).
C28_CentreReencodes ==
    (ret.op = "decode" /\ ~ret.threw)
    => LET again == encode(Num(ret.value.latitude), Num(ret.value.longitude),
                           ret.value.precision)
       IN  /\ ~again.threw
           /\ replaceHyphens(again.value) = Stripped(digiPin.v)

C28_Witness ==
    /\ ret.op = "decode" /\ ~ret.threw /\ via = "lowercase"
    /\ ret.value.precision = 10
    /\ ret.value.latitude = ret.value.bounds.south + CellUnits \div 2
    /\ encode(Num(ret.value.latitude), Num(ret.value.longitude), 10).value = origin
    /\ origin # digiPin.v

\* the variables of encode's loop after its k-th pass, for the arguments of the
\* encode call
RECURSIVE AfterLevel(_)
AfterLevel(k) ==
    IF k = 0 THEN encodeStart
    ELSE encodeStep(lat.v, lon, precision, k, AfterLevel(k - 1))

\* C24: encode and decode narrow the same rectangle.  For a point inside BOUNDS
\* and a precision p in 1..10, for every k in 1..p the rectangle encode holds
\* after its k-th symbol contains the point and is the bounds decode gives for
\* the first k symbols of the code; and encodeWithBounds(lat, lon, p) returns
\* the code of encode with the bounds decode gives for it.
C24_SameRectangle ==
    (ret.op = "encodeWithBounds" /\ InsideBounds /\ ValidPrecision)
    => /\ ~ret.threw
       /\ ret.value.digipin = encode(lat, lon, precision).value
       /\ AfterLevel(precision).digiPin = ret.value.digipin
       /\ \A k \in 1..precision :
             LET st == AfterLevel(k)
                 first == decode(Str(SubSeq(replaceHyphens(ret.value.digipin), 1, k)))
             IN  /\ ~first.threw
                 /\ first.value.bounds = [north |-> st.maxLat, south |-> st.minLat,
                                          east |-> st.maxLon, west |-> st.minLon]
                 /\ st.minLat <= lat.v /\ lat.v <= st.maxLat
                 /\ st.minLon <= lon.v /\ lon.v <= st.maxLon
       /\ ret.value.bounds = decode(Str(ret.value.digipin)).value.bounds

C24_Witness ==
    /\ ret.op = "encodeWithBounds" /\ InsideBounds /\ precision = 10 /\ ~ret.threw
    /\ lat.v = 15001924 /\ lon.v = 40479752
    /\ ret.value.bounds.north - ret.value.bounds.south = CellUnits
    /\ ret.value.bounds = decode(digiPin).value.bounds
    /\ ret.value.bounds.south <= lat.v /\ lat.v <= ret.value.bounds.north

----------------------------------------------------------------------------
(* Properties of the neighbourhoods                                        *)

\* the indices of the cells of a level around an index, at most radius rows
\* and columns away, the index itself excluded, inside the partition
Around(at, level, radius) ==
    { x \in { [r |-> at.r + dr, c |-> at.c + dc] :
                dr \in (-radius)..radius, dc \in (-radius)..radius } :
        /\ x # at
        /\ 0 <= x.r /\ x.r < 4^level
        /\ 0 <= x.c /\ x.c < 4^level }

\* the cell is in a corner of the partition, or in a row or column at its edge
IsCorner(at, level) ==
    at.r \in {0, 4^level - 1} /\ at.c \in {0, 4^level - 1}
IsEdge(at, level) ==
    at.r \in {0, 4^level - 1} \/ at.c \in {0, 4^level - 1}

\* C25: getNeighbors coincides with symbolic adjacency.  For every valid code
\* of L symbols the call returns without raising codes of L symbols of the
\* alphabet, pairwise distinct, none of them the code itself, and their cells
\* are exactly the cells of level L whose row and column index differ from the
\* code's by at most 1: 3 for a corner cell, 5 for another cell at an edge, 8
\* otherwise (level 1 has no cell away from the edges of the partition's 4 by 4).
C25_NeighborsAreAdjacentCells ==
    (ret.op = "getNeighbors" /\ digiPin.type = "string" /\ IsValidCode(digiPin.v))
    => LET code == Stripped(digiPin.v)
           level == Len(code)
           at == IndexOf(code)
           found == {replaceHyphens(ret.value[k]) : k \in 1..Len(ret.value)}
       IN  /\ ~ret.threw
           /\ \A n \in found : Len(n) = level /\ ForeignPlaces(n) = {}
           /\ Distinct(ret.value)
           /\ Cardinality(found) = Len(ret.value)
           /\ code \notin found
           /\ {IndexOf(n) : n \in found} = Around(at, level, 1)
           /\ Len(ret.value) = IF IsCorner(at, level) THEN 3
                               ELSE IF IsEdge(at, level) THEN 5 ELSE 8

\* a cell of the finest level in the northernmost row, away from the corners
C25_Witness ==
    /\ ret.op = "getNeighbors" /\ digiPin.type = "string" /\ IsValidCode(digiPin.v)
    /\ Len(Stripped(digiPin.v)) = 10
    /\ IndexOf(Stripped(digiPin.v)) = [r |-> 4^10 - 1, c |-> 1]
    /\ ~ret.threw /\ Len(ret.value) = 5

\* C26: getNeighborsInRadius(code, r) for a valid code of L symbols and an
\* integer r >= 1 returns without raising at most (2r+1)^2 - 1 codes, exactly
\* that many when the cell is at least r cells away from every edge of the
\* partition, never the code's own cell; the cells returned are those at most r
\* rows and columns away that are inside the partition; for r = 1 the codes
\* are, as a set, those of neighbors(code).
C26_NeighborsInRadius ==
    (/\ ret.op = "getNeighborsInRadius"
     /\ digiPin.type = "string" /\ IsValidCode(digiPin.v))
    => LET code == Stripped(digiPin.v)
           level == Len(code)
           at == IndexOf(code)
           r == ret.radius
           all == (2 * r + 1) * (2 * r + 1) - 1
           found == {replaceHyphens(ret.value[k]) : k \in 1..Len(ret.value)}
           away == /\ r <= at.r /\ at.r + r < 4^level
                   /\ r <= at.c /\ at.c + r < 4^level
       IN  /\ ~ret.threw
           /\ Len(ret.value) <= all
           /\ away => (Len(ret.value) = all /\ Cardinality(found) = all)
           /\ code \notin found
           /\ {IndexOf(n) : n \in found} = Around(at, level, r)
           /\ r = 1 => LET near == neighbors(digiPin, 1).value
                       IN  {ret.value[k] : k \in 1..Len(ret.value)}
                               = {near[k] : k \in 1..Len(near)}

\* a radius of 2 around a cell away from the edges, and around a corner cell
C26_Witness ==
    /\ ret.op = "getNeighborsInRadius" /\ ~ret.threw /\ ret.radius = 2
    /\ digiPin.type = "string" /\ IsValidCode(digiPin.v)
    /\ Len(Stripped(digiPin.v)) = 10
    /\ Len(ret.value) = 24
    /\ Cardinality({ret.value[k] : k \in 1..Len(ret.value)}) = 24

----------------------------------------------------------------------------
(* Properties of validate against decode                                   *)

\* C29: validate and decode agree on acceptance.  Every string for which
\* validate(...).isValid is true is decoded by decode without raising, with
\* decode's precision equal to validate's info.precision.
C29_ValidImpliesDecodes ==
    (ret.op = "validate" /\ ret.value.isValid)
    => /\ ~decode(digiPin).threw
       /\ decode(digiPin).value.precision = ret.value.precision

----------------------------------------------------------------------------
(* Properties of the TypeScript API                                        *)

\* C22: getParentDigipin returns, without raising, the DIGIPIN one level up
\* for every valid DIGIPIN of more than one symbol (its symbols without the
\* last), and returns null only when the code has at most one symbol.  Valid
\* is what validateDigipinFormat of the same API reports as valid.
C22_ParentOneLevelUp ==
    (ret.op = "getParentDigipin" /\ validateDigipinFormat(digiPin).valid)
    => LET code == Stripped(trim(digiPin.v))
       IN  /\ ~ret.threw
           /\ ret.value = Null => Len(code) <= 1
           /\ Len(code) > 1
              => /\ ret.value # Null
                 /\ replaceHyphens(ret.value) = SubSeq(code, 1, Len(code) - 1)

----------------------------------------------------------------------------
(* Properties of the batch processing                                      *)

\* the 0-based indexes of the items on which the processor of the batch throws
FailingItems ==
    {k \in 0..(Len(batch.items) - 1) : processor(batch.kind, batch.items[k + 1]).threw}

\* a step of the call is enabled: the guards of NextChunk and ReturnResult, of
\* CallProcessor and PromiseAll, of ResumeCallback and ResumeBatch
CanStep ==
    \/ batch.pc = "loop"
    \/ batch.pc = "map" /\ batch.called <= chunkLength(batch)
    \/ batch.pc = "await" /\ batch.resumed <= Len(batch.awaiting)

C27_StopsAtFirstFailure ==
    (batch.pc # "idle" /\ batch.opts.errorStrategy = "stop")
    => /\ \A p \in 1..Len(batch.calls) :
             batch.calls[p].threw => p = Len(batch.calls)
       /\ (batch.pc = "done" /\ FailingItems # {})
          => /\ batch.promise = "rejected"
             /\ \A k \in FailingItems : batch.value.index <= k


----------------------------------------------------------------------------
(* Properties of the fluent API                                            *)

GetOps == {"getDistance", "getNeighbors", "getArea"}

\* the last call raised the error of a fluent call without a current code
RaisedNoCurrent == ret.threw /\ ret.error.message = NoCurrent.error.message

\* C30: the fluent API on the shared default instance.  getArea, getDistance
\* and getNeighbors raise 'No current DIGIPIN set' exactly when no from() or
\* to() has succeeded on the instance so far; a from() that raises leaves the
\* current DIGIPIN as it was; and a get call of a caller works on the code that
\* the caller's own latest from() or to() has set, whatever from() and to()
\* calls other callers have made on the instance in between.
C30_FluentPerCaller ==
    /\ ret.op \in GetOps
       => /\ RaisedNoCurrent <=> ~succeeded
          /\ own[ret.by] # Undefined => ret.on = own[ret.by]
    /\ (ret.op = "from" /\ ret.threw) => currentDigipin = ret.before

====
